---- MODULE Spec2Model ----
(***************************************************************************)
(* Model of kodi_addon_builder.news_formatter.NewsFormatter.               *)
(*                                                                         *)
(* A text is a sequence of tokens.  Every whitespace character, every      *)
(* bullet marker and every '#' is a token of its own; a run of other       *)
(* characters (a word) is one token whose character count is CharLen.      *)
(* Two word tokens that are adjacent in a text are adjacent in the string  *)
(* (<<"Added", "x">> is the string "Addedx").                              *)
(***************************************************************************)
EXTENDS Integers, Sequences, FiniteSets, TLC

VARIABLES
    arg_summary,      \* constructor argument summary
    arg_news,         \* constructor argument news
    arg_version,      \* constructor argument version
    arg_date,         \* constructor argument date (<<>> is None or "")
    now,              \* the wall clock's day, read by datetime.now()
    pc,               \* "start", "ready" (object exists) or "failed"
    summary,          \* self.summary
    news,             \* self.news
    version,          \* self.version
    date,             \* self.date
    parsed_sections,  \* self.parsed_sections, an insertion-ordered dict
    call,             \* the last operation called and its argument
    ret,              \* what the last operation returned or raised
    hist,             \* history: the object as constructed, first results
    changelog,        \* the file CHANGELOG.md: does it exist, its content
    inserted,         \* history: the entries inserted into CHANGELOG.md
    addon_xml,        \* the file addon.xml
    news_call,        \* the last update_addon_news call and its outcome
    dry_run_dir,      \* the directory 'dry-run' of the working directory
    repo,             \* the git repository
    release,          \* the release command: its options and position
    op_call           \* a call of bump_version, commit_changes or create_tag

formatterVars ==
    <<arg_summary, arg_news, arg_version, arg_date, now, pc, summary,
      news, version, date, parsed_sections, call, ret>>

changelogVars == <<changelog, inserted>>

xmlVars == <<addon_xml, news_call>>

releaseVars == <<dry_run_dir, repo, release>>

otherVars == <<changelogVars, xmlVars, releaseVars, op_call>>

vars == <<formatterVars, hist, otherVars>>

----------------------------------------------------------------------------
(* Bounds of the model *)

MaxLines == 5        \* lines of a news text over CoreLines
MaxEdgeLines == 3    \* lines of a news text over EdgeLines
MaxDay == 2          \* days the wall clock can show
MaxInserts == 3      \* calls of update_changelog_with_content
MaxNewsCalls == 3    \* calls of update_addon_news
MaxVersionPart == 3  \* largest major, minor or patch number
MaxReleases == 2     \* runs of the release command
LongWordLen == 1475  \* characters the token LongWord stands for

----------------------------------------------------------------------------
(* Characters and strings *)

SP == " "
NL == "\n"
CR == "\r"
Whitespace == {SP, NL, CR}

LongWord == "L"

CharLen(tok) == IF tok = LongWord THEN LongWordLen ELSE Len(tok)

RECURSIVE TextLen(_)
TextLen(s) == IF s = <<>> THEN 0 ELSE CharLen(Head(s)) + TextLen(Tail(s))

IsSpace(c) == c \in Whitespace

LStrip(s) ==
    IF \A i \in 1..Len(s) : IsSpace(s[i]) THEN <<>>
    ELSE LET k == CHOOSE i \in 1..Len(s) :
                     ~IsSpace(s[i]) /\ \A j \in 1..(i - 1) : IsSpace(s[j])
         IN  SubSeq(s, k, Len(s))

RStrip(s) ==
    IF \A i \in 1..Len(s) : IsSpace(s[i]) THEN <<>>
    ELSE LET k == CHOOSE i \in 1..Len(s) :
                     ~IsSpace(s[i]) /\ \A j \in (i + 1)..Len(s) : IsSpace(s[j])
         IN  SubSeq(s, 1, k)

Strip(s) == RStrip(LStrip(s))

RECURSIVE Split(_, _)
Split(s, sep) ==
    IF \A i \in 1..Len(s) : s[i] # sep THEN <<s>>
    ELSE LET k == CHOOSE i \in 1..Len(s) :
                     s[i] = sep /\ \A j \in 1..(i - 1) : s[j] # sep
         IN  <<SubSeq(s, 1, k - 1)>> \o Split(SubSeq(s, k + 1, Len(s)), sep)

RECURSIVE Join(_, _)
Join(lines, sep) ==
    IF lines = <<>> THEN <<>>
    ELSE IF Len(lines) = 1 THEN lines[1]
    ELSE lines[1] \o <<sep>> \o Join(Tail(lines), sep)

----------------------------------------------------------------------------
(* Category names and their letter cases *)

CategoryNames ==
    {"added", "fixed", "changed", "deprecated", "removed", "security"}

Capitalized ==
    [added |-> "Added", fixed |-> "Fixed", changed |-> "Changed",
     deprecated |-> "Deprecated", removed |-> "Removed",
     security |-> "Security", foobar |-> "Foobar"]

UpperCased ==
    [added |-> "ADDED", fixed |-> "FIXED", changed |-> "CHANGED",
     deprecated |-> "DEPRECATED", removed |-> "REMOVED",
     security |-> "SECURITY", foobar |-> "FOOBAR"]

FirstThree ==
    [added |-> "add", fixed |-> "fix", changed |-> "cha",
     deprecated |-> "dep", removed |-> "rem", security |-> "sec",
     foobar |-> "foo"]

CasedWords == DOMAIN Capitalized

\* str.lower() of a word token
Lower(w) ==
    IF \E c \in CasedWords : w \in {c, Capitalized[c], UpperCased[c]}
    THEN CHOOSE c \in CasedWords : w \in {c, Capitalized[c], UpperCased[c]}
    ELSE w

\* str.capitalize() of a word token
Capitalize(w) ==
    IF Lower(w) \in CasedWords THEN Capitalized[Lower(w)] ELSE w

\* w[:3] of a word token
Slice3(w) == IF w \in CasedWords THEN FirstThree[w] ELSE w

BRACKET_CODES ==
    [added      |-> <<"[", "new", "]">>,
     fixed      |-> <<"[", "fix", "]">>,
     changed    |-> <<"[", "upd", "]">>,
     deprecated |-> <<"[", "dep", "]">>,
     removed    |-> <<"[", "rem", "]">>,
     security   |-> <<"[", "sec", "]">>]

----------------------------------------------------------------------------
(* The two regular expressions *)

IsCategoryWord_AnyWord(w) == Lower(w) \in CasedWords

\* the word alternative (Added|Fixed|...) under re.IGNORECASE
IsCategoryWord(w) == Lower(w) \in CategoryNames

\* index of the first token at or after i that is not whitespace
SkipSpace(s, i) ==
    IF \A j \in i..Len(s) : IsSpace(s[j]) THEN Len(s) + 1
    ELSE CHOOSE j \in i..Len(s) :
             ~IsSpace(s[j]) /\ \A k \in i..(j - 1) : IsSpace(s[k])

\* ^###\s+(Added|Fixed|Changed|Deprecated|Removed|Security) matches at i
HeaderAt(s, i) ==
    /\ i + 4 <= Len(s)
    /\ (i = 1 \/ s[i - 1] = NL)
    /\ s[i] = "#" /\ s[i + 1] = "#" /\ s[i + 2] = "#"
    /\ IsSpace(s[i + 3])
    /\ SkipSpace(s, i + 3) <= Len(s)
    /\ IsCategoryWord(s[SkipSpace(s, i + 3)])

\* re.search of the validation pattern, re.MULTILINE | re.IGNORECASE
HasHeader(s) == \E i \in 1..Len(s) : HeaderAt(s, i)

\* $ under re.MULTILINE after the token at index j
EndOfLine(s, j) == j = Len(s) \/ s[j + 1] = NL

\* ^###\s+(Added|Fixed|Changed|Deprecated|Removed|Security)$ matches at i
SectionAt(s, i) ==
    HeaderAt(s, i) /\ EndOfLine(s, SkipSpace(s, i + 3))

RECURSIVE SortedSeq(_)
SortedSeq(S) ==
    IF S = {} THEN <<>>
    ELSE LET m == CHOOSE x \in S : \A y \in S : x <= y
         IN  <<m>> \o SortedSeq(S \ {m})

\* start indexes of the matches re.split finds, left to right
SectionStarts(s) == SortedSeq({i \in 1..Len(s) : SectionAt(s, i)})

----------------------------------------------------------------------------
(* _parse_news *)

StartsWithBullet_AnyLine(line) == line # <<>>

StartsWithBullet(line) ==
    Len(line) >= 2 /\ line[1] \in {"-", "*", "+"} /\ line[2] = SP

\* re.sub(r"^[-*+]\s+", "", line) on a line that starts with a bullet
RemoveMarker(line) == LStrip(Tail(line))

RECURSIVE BulletsOf(_)
BulletsOf(lines) ==
    IF lines = <<>> THEN <<>>
    ELSE LET line == Strip(Head(lines))
             bullet_text == RemoveMarker(line)
         IN  (IF StartsWithBullet(line) /\ bullet_text # <<>>
              THEN <<bullet_text>> ELSE <<>>) \o BulletsOf(Tail(lines))

ExtractBullets(section_content) == BulletsOf(Split(section_content, NL))

\* sections[name] = bullets on an insertion-ordered dict
DictSet(sections, name, bullets) ==
    IF \E k \in 1..Len(sections) : sections[k].name = name
    THEN [k \in 1..Len(sections) |->
             IF sections[k].name = name
             THEN [name |-> name, bullets |-> bullets] ELSE sections[k]]
    ELSE Append(sections, [name |-> name, bullets |-> bullets])

\* the name and the content of each match of the split, in order
RECURSIVE PartsFrom(_, _)
PartsFrom(s, starts) ==
    IF starts = <<>> THEN <<>>
    ELSE LET w == SkipSpace(s, Head(starts) + 3)
             stop == IF Len(starts) > 1 THEN starts[2] - 1 ELSE Len(s)
         IN  <<[name |-> s[w], content |-> SubSeq(s, w + 1, stop)]>>
                 \o PartsFrom(s, Tail(starts))

Parts(s) == PartsFrom(s, SectionStarts(s))

SectionName_NoLower(word) == word

\* section_name = parts[i].lower()
SectionName(word) == Lower(word)

RECURSIVE ParseLoop(_, _)
ParseLoop(parts, sections) ==
    IF parts = <<>> THEN sections
    ELSE LET section_name == SectionName(Head(parts).name)
             bullets == ExtractBullets(Head(parts).content)
         IN  ParseLoop(Tail(parts),
                       IF bullets # <<>>
                       THEN DictSet(sections, section_name, bullets)
                       ELSE sections)

ParseNews(s) == ParseLoop(Parts(s), <<>>)

----------------------------------------------------------------------------
(* Results of a call *)

Returned(v) == [ok |-> TRUE, value |-> v, error |-> "", len |-> 0]
Raised(msg, n) == [ok |-> FALSE, value |-> <<>>, error |-> msg, len |-> n]

EmptySummaryError == "Summary cannot be empty"
EmptyNewsError == "News content cannot be empty"
EmptyVersionError == "Version cannot be empty"
NoHeaderError ==
    "News must contain at least one Keep a Changelog section header (### Added, ### Fixed, etc.)"
TooLongError ==
    "addon news limited to 1500 characters rendered (current news is {len}). either shorten news, or provide summary in --addon-news flag"

----------------------------------------------------------------------------
(* __init__ and _validate_inputs *)

ValidateInputs_VersionFirst(s, n, v) ==
    IF s = <<>> THEN EmptySummaryError
    ELSE IF v = <<>> THEN EmptyVersionError
    ELSE IF n = <<>> THEN EmptyNewsError
    ELSE IF ~HasHeader(n) THEN NoHeaderError
    ELSE ""

\* the message of the ValueError _validate_inputs raises, "" when it returns
ValidateInputs(s, n, v) ==
    IF s = <<>> THEN EmptySummaryError
    ELSE IF n = <<>> THEN EmptyNewsError
    ELSE IF v = <<>> THEN EmptyVersionError
    ELSE IF ~HasHeader(n) THEN NoHeaderError
    ELSE ""

DayNames == <<"2026-11-01", "2026-11-02", "2026-11-03", "2026-11-04">>

\* datetime.now().strftime("%Y-%m-%d")
Today(day) == <<DayNames[day]>>

\* date or datetime.now().strftime("%Y-%m-%d")
EffectiveDate(d, day) == IF d # <<>> THEN d ELSE Today(day)

----------------------------------------------------------------------------
(* The four renders, on self = [summary, news, version, date,             *)
(* parsed_sections]                                                        *)

FormatForCommit_NoPrefix(self) ==
    self.version \o <<SP, "-", SP>> \o self.summary

FormatForCommit(self) ==
    <<"release:", SP>> \o self.version \o <<SP, "-", SP>> \o self.summary

EntryHeader_Resample(self) ==
    <<"#", "#", SP, "[">> \o self.version \o <<"]", SP, "-", SP>>
        \o Today(now) \o <<SP, "-", SP>> \o self.summary

EntryHeader(self) ==
    <<"#", "#", SP, "[">> \o self.version \o <<"]", SP, "-", SP>>
        \o self.date \o <<SP, "-", SP>> \o self.summary

RECURSIVE BulletLines(_)
BulletLines(bullets) ==
    IF bullets = <<>> THEN <<>>
    ELSE <<(<<"-", SP>> \o Head(bullets))>> \o BulletLines(Tail(bullets))

RECURSIVE SectionLines(_)
SectionLines(sections) ==
    IF sections = <<>> THEN <<>>
    ELSE <<(<<"#", "#", "#", SP, Capitalize(Head(sections).name)>>)>>
             \o BulletLines(Head(sections).bullets)
             \o << <<>> >>
             \o SectionLines(Tail(sections))

FormatForChangelog_NoRStrip(self) ==
    LET lines == << <<>>, EntryHeader(self), <<>> >>
                     \o SectionLines(self.parsed_sections)
    IN  Join(lines, NL) \o <<NL>>

FormatForChangelog(self) ==
    LET lines == << <<>>, EntryHeader(self), <<>> >>
                     \o SectionLines(self.parsed_sections)
    IN  RStrip(Join(lines, NL)) \o <<NL>>

FormatForReleaseNotes_NoBlank(self) ==
    LET lines == << (<<"#", SP, "Release", SP, "Notes", SP, "-", SP>>
                        \o self.version),
                    EntryHeader(self), <<>> >>
                     \o SectionLines(self.parsed_sections)
    IN  RStrip(Join(lines, NL)) \o <<NL>>

FormatForReleaseNotes(self) ==
    LET lines == << (<<"#", SP, "Release", SP, "Notes", SP, "-", SP>>
                        \o self.version),
                    <<>>, EntryHeader(self), <<>> >>
                     \o SectionLines(self.parsed_sections)
    IN  RStrip(Join(lines, NL)) \o <<NL>>

\* self.BRACKET_CODES.get(section_name, f"[{section_name[:3]}]")
BracketCode(section_name) ==
    IF section_name \in DOMAIN BRACKET_CODES THEN BRACKET_CODES[section_name]
    ELSE <<"[", Slice3(section_name), "]">>

RECURSIVE BracketedLines(_, _)
BracketedLines(bracket_code, bullets) ==
    IF bullets = <<>> THEN <<>>
    ELSE <<(bracket_code \o <<SP>> \o Head(bullets))>>
             \o BracketedLines(bracket_code, Tail(bullets))

RECURSIVE AddonItemLines(_)
AddonItemLines(sections) ==
    IF sections = <<>> THEN <<>>
    ELSE BracketedLines(BracketCode(Head(sections).name),
                        Head(sections).bullets)
             \o AddonItemLines(Tail(sections))

EffectiveSummary_IgnoreCustom(self, custom_summary) == self.summary

\* custom_summary or self.summary
EffectiveSummary(self, custom_summary) ==
    IF custom_summary # <<>> THEN custom_summary ELSE self.summary

AddonNewsLines_Resample(self, custom_summary) ==
    << (<<"v">> \o self.version \o <<SP, "(">> \o Today(now) \o <<")">>),
       EffectiveSummary(self, custom_summary) >>
        \o AddonItemLines(self.parsed_sections)

AddonNewsLines_DropLast(self, custom_summary) ==
    LET items == AddonItemLines(self.parsed_sections)
    IN  << (<<"v">> \o self.version \o <<SP, "(">> \o self.date \o <<")">>),
           EffectiveSummary(self, custom_summary) >>
            \o SubSeq(items, 1, Len(items) - 1)

AddonNewsLines(self, custom_summary) ==
    << (<<"v">> \o self.version \o <<SP, "(">> \o self.date \o <<")">>),
       EffectiveSummary(self, custom_summary) >>
        \o AddonItemLines(self.parsed_sections)

AddonNewsLimit == 1500

ExceedsLimit_OffByOne(n) == n >= AddonNewsLimit

ExceedsLimit(n) == n > AddonNewsLimit

FormatForAddonNews(self, custom_summary) ==
    LET result == Join(AddonNewsLines(self, custom_summary), NL)
    IN  IF ExceedsLimit(TextLen(result))
        THEN Raised(TooLongError, TextLen(result))
        ELSE Returned(result)

----------------------------------------------------------------------------
(* Inputs *)

HeadingLine(word) == <<"#", "#", "#", SP, word>>

CoreLines ==
    { HeadingLine("Added"), HeadingLine("FIXED"),
      <<"-", SP, "a">>, <<"*", SP, "b">> }

EdgeLines ==
    { HeadingLine("Added"),
      HeadingLine("Added") \o <<CR>>,
      HeadingLine("Added") \o <<SP, "features">>,
      HeadingLine("Foobar"),
      <<"-", SP, "x">>,
      <<SP, "-", SP, SP, "y", SP>>,
      <<"+", SP, LongWord>>,
      <<"text">> }

SeqsUpTo(S, n) == UNION { [1..k -> S] : k \in 1..n }

CoreNews == { Join(ls, NL) : ls \in SeqsUpTo(CoreLines, MaxLines) }
EdgeNews == { Join(ls, NL) : ls \in SeqsUpTo(EdgeLines, MaxEdgeLines) }

CategoryNews ==
    { Join(<<HeadingLine(w), <<"-", SP, "a">> >>, NL) :
        w \in UNION { {c, Capitalized[c], UpperCased[c]} : c \in CategoryNames } }

FieldNews ==
    { <<>>, <<SP, NL>>, <<"text">>,
      Join(<<HeadingLine("Fixed"), <<"-", SP, "a">> >>, NL),
      <<NL, SP>> \o Join(<<HeadingLine("Fixed"), <<"-", SP, "a">> >>, NL)
          \o <<SP, NL>> }

SummaryInputs == { <<>>, <<SP>>, <<"s">>, <<SP, "Bug", SP, "fixes", NL>> }
VersionInputs == { <<>>, <<SP>>, <<"1">>, <<SP, "1.2.3", SP>> }
DateInputs == { <<>>, <<"2020-02-02">> }
CustomSummaries == { <<>>, <<"cc">>, <<"ccc">> }

Inputs ==
    { [summary |-> <<"s">>, news |-> n, version |-> <<"1">>, date |-> <<>>] :
        n \in CoreNews \cup EdgeNews \cup CategoryNews }
    \cup
    [summary : SummaryInputs, news : FieldNews, version : VersionInputs,
     date : DateInputs]
    \cup
    \* a render over the limit that a shorter custom summary brings under it
    { [summary |-> <<"Bug", SP, "fixes">>,
       news |-> Join(<<HeadingLine("Added"), <<"+", SP, LongWord>> >>, NL),
       version |-> <<"1">>, date |-> <<>>] }

----------------------------------------------------------------------------
(* The state machine *)

Self ==
    [summary |-> summary, news |-> news, version |-> version, date |-> date,
     parsed_sections |-> parsed_sections]

NoHistory == [self |-> <<>>, day |-> 0, days |-> {}, repeat |-> FALSE,
              results |-> {}]

InitFormatter(inputs) ==
    /\ \E in \in inputs :
          /\ arg_summary = in.summary
          /\ arg_news = in.news
          /\ arg_version = in.version
          /\ arg_date = in.date
    /\ now = 1
    /\ pc = "start"
    /\ summary = <<>>
    /\ news = <<>>
    /\ version = <<>>
    /\ date = <<>>
    /\ parsed_sections = <<>>
    /\ call = [op |-> "none", custom_summary |-> <<>>]
    /\ ret = Returned(<<>>)
    /\ hist = NoHistory

MissingFile == [exists |-> FALSE, content |-> <<>>]

\* Python's None
None == "None"

MissingXml ==
    [exists |-> FALSE, wellformed |-> FALSE, comments |-> FALSE,
     version |-> None, elements |-> <<>>]

NoNewsCall ==
    [done |-> 0, news_content |-> <<>>, raised |-> FALSE, error |-> "",
     before |-> MissingXml]

NoDryRunDir ==
    [exists |-> FALSE, addon_xml |-> MissingXml, changelog |-> MissingFile,
     release_notes |-> MissingFile,
     git_commands |-> [exists |-> FALSE, commit_message |-> <<>>,
                       tag_name |-> ""]]

\* the directory of the addon and the preview directory of the dry run
AddonDir == "plugin.video.test"
DryRunDir == "dry-run"
Dirs == {AddonDir, DryRunDir}

\* a repository in which the given addon.xml and CHANGELOG.md are committed
RepoWith(xml, log) ==
    LET tree == [d \in Dirs |->
                    IF d = AddonDir
                    THEN [addon_xml |-> xml, changelog |-> log]
                    ELSE [addon_xml |-> MissingXml, changelog |-> MissingFile]]
    IN  [head |-> tree, index |-> tree, commits |-> <<>>, tags |-> <<>>,
         pushed_commits |-> 0, pushed_tags |-> {}]

NoRelease ==
    [pc |-> "idle", runs |-> 0, dry_run |-> FALSE, bump_type |-> "",
     addon_dir |-> "", addon_news |-> <<>>, current_version |-> None,
     new_version |-> None, steps |-> <<>>,
     before |-> [addon_xml |-> MissingXml, changelog |-> MissingFile,
                 project_xml |-> MissingXml, project_log |-> MissingFile,
                 repo |-> RepoWith(MissingXml, MissingFile)],
     previous |-> [pc |-> "idle", dry_run |-> FALSE, bump_type |-> "",
                   news |-> <<>>, addon_dir |-> "",
                   addon_xml |-> MissingXml]]

NoCall == [op |-> "none"]

InitOther ==
    /\ changelog = MissingFile
    /\ inserted = <<>>
    /\ addon_xml = MissingXml
    /\ news_call = NoNewsCall
    /\ dry_run_dir = NoDryRunDir
    /\ repo = RepoWith(MissingXml, MissingFile)
    /\ release = NoRelease
    /\ op_call = NoCall

Init == InitFormatter(Inputs) /\ InitOther

\* NewsFormatter(summary, news, version, date)
ConstructStep ==
    /\ pc = "start"
    /\ LET s == Strip(arg_summary)
           n == Strip(arg_news)
           v == Strip(arg_version)
           error == ValidateInputs(s, n, v)
       IN  IF error = ""
           THEN /\ pc' = "ready"
                /\ summary' = s
                /\ news' = n
                /\ version' = v
                /\ date' = EffectiveDate(arg_date, now)
                /\ parsed_sections' = ParseNews(n)
                /\ ret' = Returned(<<>>)
           ELSE /\ pc' = "failed"
                /\ ret' = Raised(error, 0)
                /\ UNCHANGED <<summary, news, version, date, parsed_sections>>
    /\ call' = [op |-> "__init__", custom_summary |-> <<>>]
    /\ UNCHANGED <<arg_summary, arg_news, arg_version, arg_date, now>>

Construct == ConstructStep /\ UNCHANGED <<hist, otherVars>>

RenderStep(op, custom_summary, result) ==
    /\ pc = "ready"
    /\ call' = [op |-> op, custom_summary |-> custom_summary]
    /\ ret' = result
    /\ UNCHANGED <<arg_summary, arg_news, arg_version, arg_date, now, pc,
                   summary, news, version, date, parsed_sections>>

Render(op, custom_summary, result) ==
    RenderStep(op, custom_summary, result) /\ UNCHANGED <<hist, otherVars>>

CallFormatForCommit ==
    Render("format_for_commit", <<>>, Returned(FormatForCommit(Self)))

CallFormatForChangelog ==
    Render("format_for_changelog", <<>>, Returned(FormatForChangelog(Self)))

CallFormatForAddonNews ==
    \E c \in CustomSummaries :
        Render("format_for_addon_news", c, FormatForAddonNews(Self, c))

CallFormatForReleaseNotes ==
    Render("format_for_release_notes", <<>>,
           Returned(FormatForReleaseNotes(Self)))

\* the wall clock passes midnight
Tick ==
    /\ now < MaxDay
    /\ now' = now + 1
    /\ UNCHANGED <<arg_summary, arg_news, arg_version, arg_date, pc, summary,
                   news, version, date, parsed_sections, call, ret>>
    /\ UNCHANGED <<hist, otherVars>>

Next ==
    \/ Construct
    \/ CallFormatForCommit
    \/ CallFormatForChangelog
    \/ CallFormatForAddonNews
    \/ CallFormatForReleaseNotes
    \/ Tick

Spec == Init /\ [][Next]_vars

----------------------------------------------------------------------------
(* The same operations with their history recorded: the fields the         *)
(* constructor left, the day it ran, the first result of every call, the   *)
(* days on which a render ran and whether the last call was a repetition.  *)

HistInputs ==
    [summary : {<<"s">>},
     news : { Join(<<HeadingLine("Fixed"), <<"-", SP, "a">> >>, NL),
              Join(<<HeadingLine("Added"), <<"+", SP, LongWord>> >>, NL) },
     version : {<<"1">>},
     date : DateInputs]

InitHist == InitFormatter(HistInputs) /\ InitOther

HistConstruct ==
    /\ ConstructStep
    /\ hist' = [hist EXCEPT
                   !.self = [summary |-> summary', news |-> news',
                             version |-> version', date |-> date',
                             parsed_sections |-> parsed_sections'],
                   !.day = now]
    /\ UNCHANGED otherVars

HistRender(op, custom_summary, result) ==
    /\ RenderStep(op, custom_summary, result)
    /\ LET seen == \E h \in hist.results :
                       h.op = op /\ h.custom_summary = custom_summary
       IN  hist' = [hist EXCEPT
                       !.days = @ \cup {now},
                       !.repeat = seen,
                       !.results = IF seen THEN @
                                   ELSE @ \cup {[op |-> op,
                                                 custom_summary |-> custom_summary,
                                                 ret |-> result]}]
    /\ UNCHANGED otherVars

HistFormatForCommit ==
    HistRender("format_for_commit", <<>>, Returned(FormatForCommit(Self)))

HistFormatForChangelog ==
    HistRender("format_for_changelog", <<>>,
               Returned(FormatForChangelog(Self)))

HistFormatForAddonNews ==
    \E c \in CustomSummaries :
        HistRender("format_for_addon_news", c, FormatForAddonNews(Self, c))

HistFormatForReleaseNotes ==
    HistRender("format_for_release_notes", <<>>,
               Returned(FormatForReleaseNotes(Self)))

NextHist ==
    \/ HistConstruct
    \/ HistFormatForCommit
    \/ HistFormatForChangelog
    \/ HistFormatForAddonNews
    \/ HistFormatForReleaseNotes
    \/ Tick

SpecHist == InitHist /\ [][NextHist]_vars

----------------------------------------------------------------------------
(* cli.update_changelog_with_content *)

Words(ws) == Join([i \in 1..Len(ws) |-> <<ws[i]>>], SP)

CHANGELOG_HEADER ==
    <<"#", SP, "Changelog", NL, NL>>
    \o Words(<<"All", "notable", "changes", "to", "this", "project", "will",
               "be", "documented", "in", "this", "file.">>)
    \o <<NL, NL>>
    \o Words(<<"The", "format", "is", "based", "on", "[Keep", "a",
               "Changelog](https://keepachangelog.com/en/1.1.0/),">>)
    \o <<NL>>
    \o Words(<<"and", "this", "project", "adheres", "to", "[Semantic",
               "Versioning](https://semver.org/spec/v2.0.0.html).">>)
    \o <<NL, NL, "-", "-", "-", NL>>

Separator == <<NL, "-", "-", "-", NL>>

OccursAt(content, sub, k) ==
    /\ k + Len(sub) - 1 <= Len(content)
    /\ SubSeq(content, k, k + Len(sub) - 1) = sub

\* sub in content
Contains(content, sub) == \E k \in 1..Len(content) : OccursAt(content, sub, k)

\* index of the first occurrence of sub in content
FirstIndex(content, sub) ==
    CHOOSE k \in 1..Len(content) :
        OccursAt(content, sub, k)
            /\ \A j \in 1..(k - 1) : ~OccursAt(content, sub, j)

\* content.split(sep, 1) joined again around the new entry
InsertAfter(content, sep, k, new_entry_content) ==
    SubSeq(content, 1, k - 1) \o sep \o new_entry_content
        \o SubSeq(content, k + Len(sep), Len(content))

OldHeader == <<"#", SP, "Changelog", NL, NL>>

UpdateChangelogWithContent_SplitLast(file, new_entry_content) ==
    IF file.exists
    THEN IF Contains(file.content, Separator)
         THEN InsertAfter(file.content, Separator,
                          CHOOSE k \in 1..Len(file.content) :
                              OccursAt(file.content, Separator, k)
                                  /\ \A j \in (k + 1)..Len(file.content) :
                                        ~OccursAt(file.content, Separator, j),
                          new_entry_content)
         ELSE CHANGELOG_HEADER \o new_entry_content \o file.content
    ELSE CHANGELOG_HEADER \o new_entry_content

\* the content update_changelog_with_content writes to the file
UpdateChangelogWithContent(file, new_entry_content) ==
    IF file.exists
    THEN IF Contains(file.content, Separator)
         THEN InsertAfter(file.content, Separator,
                          FirstIndex(file.content, Separator),
                          new_entry_content)
         ELSE IF OccursAt(file.content, OldHeader, 1)
         THEN CHANGELOG_HEADER \o new_entry_content
                  \o SubSeq(file.content, Len(OldHeader) + 1,
                            Len(file.content))
         ELSE CHANGELOG_HEADER \o new_entry_content \o file.content
    ELSE CHANGELOG_HEADER \o new_entry_content

EntryOf(v) ==
    FormatForChangelog([summary |-> <<"s">>, news |-> <<>>, version |-> <<v>>,
                        date |-> <<"2026-11-01">>,
                        parsed_sections |->
                            <<[name |-> "fixed", bullets |-> <<(<<"a">>)>>]>>])

ChangelogEntries ==
    { EntryOf("1.0.1"), EntryOf("1.0.2"),
      <<"x", NL, "-", "-", "-", NL, "y", NL>>,
      <<"-", "-", "-", NL>>,
      <<>> }

InitChangelog ==
    InitFormatter({[summary |-> <<"s">>, news |-> <<>>, version |-> <<"1">>,
                    date |-> <<>>]})
        /\ InitOther

CallUpdateChangelogWithContent ==
    /\ Len(inserted) < MaxInserts
    /\ \E new_entry_content \in ChangelogEntries :
          /\ changelog' =
                [exists |-> TRUE,
                 content |-> UpdateChangelogWithContent(changelog,
                                                        new_entry_content)]
          /\ inserted' = Append(inserted, new_entry_content)
    /\ UNCHANGED <<formatterVars, hist, op_call, xmlVars, releaseVars>>

NextChangelog == CallUpdateChangelogWithContent

SpecChangelog == InitChangelog /\ [][NextChangelog]_vars

----------------------------------------------------------------------------
(* addon.xml as xml.etree.ElementTree reads and writes it *)

\* An addon.xml file: whether it is well-formed XML, whether it holds
\* comments, the version attribute of the root element <addon>, and the
\* children of the root; each child has a tag, a point attribute and its own
\* children, which have a tag and a text.
XmlFile(comments, version_attr, elements) ==
    [exists |-> TRUE, wellformed |-> TRUE, comments |-> comments,
     version |-> version_attr, elements |-> elements]

\* a file that is not XML: ET.parse raises ParseError
MalformedXml ==
    [exists |-> TRUE, wellformed |-> FALSE, comments |-> FALSE,
     version |-> None, elements |-> <<>>]

Element(tag, point, children) ==
    [tag |-> tag, point |-> point, children |-> children]

Child(tag, text) == [tag |-> tag, text |-> text]

MetadataPoint == "xbmc.addon.metadata"

\* ET.parse: the tree holds the elements, their attributes and texts; the
\* default parser drops comments
ParseXml(file) == [version |-> file.version, elements |-> file.elements]

\* tree.write(path, encoding="UTF-8", xml_declaration=True)
WriteXml(tree) == XmlFile(FALSE, tree.version, tree.elements)

\* for elem in root: ... tag_name == "extension" and point == metadata: break
\* (0 when the loop ends without a match)
FindExtension(elements) ==
    IF \E i \in 1..Len(elements) :
          elements[i].tag = "extension" /\ elements[i].point = MetadataPoint
    THEN CHOOSE i \in 1..Len(elements) :
          /\ elements[i].tag = "extension" /\ elements[i].point = MetadataPoint
          /\ \A j \in 1..(i - 1) :
                ~(elements[j].tag = "extension"
                    /\ elements[j].point = MetadataPoint)
    ELSE 0

\* for elem in extension: ... tag_name == tag: break
FindChild(children, tag) ==
    IF \E i \in 1..Len(children) : children[i].tag = tag
    THEN CHOOSE i \in 1..Len(children) :
          /\ children[i].tag = tag
          /\ \A j \in 1..(i - 1) : children[j].tag # tag
    ELSE 0

InvalidXmlError == "Invalid XML in addon.xml"
UpdateNewsError == "Failed to update addon.xml news section"

SetNews_AlwaysAppend(tree, news_content) ==
    LET e == FindExtension(tree.elements)
        children == tree.elements[e].children
    IN  [tree EXCEPT !.elements[e].children =
            Append(children, Child("news", news_content))]

\* the tree after news_elem.text = news_content, the element created by
\* ET.SubElement when the extension has none
SetNews(tree, news_content) ==
    LET e == FindExtension(tree.elements)
        children == tree.elements[e].children
        n == FindChild(children, "news")
    IN  [tree EXCEPT !.elements[e].children =
            IF n = 0 THEN Append(children, Child("news", news_content))
            ELSE [children EXCEPT ![n].text = news_content]]

\* update_addon_news: what it raises and the file it leaves
UpdateAddonNews(file, news_content) ==
    IF ~file.wellformed
    THEN [raised |-> TRUE, error |-> InvalidXmlError, file |-> file]
    ELSE IF FindExtension(ParseXml(file).elements) = 0
    THEN [raised |-> TRUE, error |-> UpdateNewsError, file |-> file]
    ELSE [raised |-> FALSE, error |-> "",
          file |-> WriteXml(SetNews(ParseXml(file), news_content))]

OtherExtension ==
    Element("extension", "xbmc.python.pluginsource", <<>>)

MetadataExtension(children) == Element("extension", MetadataPoint, children)

SummaryChild == Child("summary", <<"Test", SP, "addon">>)

OldNews == <<"Old", SP, "news", SP, "content">>

\* the addon.xml files of the tests, with and without comments, and files
\* with a second news element or a second metadata extension
AddonXmlFiles ==
    { XmlFile(c, "1.0.0", <<MetadataExtension(ch)>>) :
        c \in BOOLEAN,
        ch \in { <<SummaryChild, Child("version", "1.0.0")>>,
                 <<SummaryChild, Child("version", "1.0.0"),
                   Child("news", OldNews)>>,
                 <<Child("news", OldNews), Child("news", <<"b">>)>> } }
    \cup { XmlFile(FALSE, "1.0.0",
                   <<OtherExtension, MetadataExtension(<<SummaryChild>>),
                     MetadataExtension(<<Child("news", OldNews)>>)>>),
           XmlFile(FALSE, "1.0.0",
                   <<Element("extension", "xbmc.python.script",
                             <<SummaryChild>>)>>),
           XmlFile(TRUE, "1.0.0", <<Element("requires", None, <<>>)>>),
           MalformedXml }

NewsContents ==
    { <<"[fix]", SP, "Bug", SP, "fix", NL, "[upd]", SP, "API", SP, "change">>,
      <<"[new]", SP, "New", SP, "feature">>,
      <<"news", SP, "content">>,
      OldNews }

InitAddonNews ==
    /\ InitFormatter({[summary |-> <<"s">>, news |-> <<>>,
                       version |-> <<"1">>, date |-> <<>>]})
    /\ changelog = MissingFile
    /\ inserted = <<>>
    /\ addon_xml \in AddonXmlFiles
    /\ news_call = NoNewsCall
    /\ dry_run_dir = NoDryRunDir
    /\ repo = RepoWith(MissingXml, MissingFile)
    /\ release = NoRelease
    /\ op_call = NoCall

CallUpdateAddonNews ==
    /\ news_call.done < MaxNewsCalls
    /\ \E news_content \in NewsContents :
          LET result == UpdateAddonNews(addon_xml, news_content)
          IN  /\ addon_xml' = result.file
              /\ news_call' =
                    [done |-> news_call.done + 1,
                     news_content |-> news_content,
                     raised |-> result.raised, error |-> result.error,
                     before |-> addon_xml]
    /\ UNCHANGED <<formatterVars, hist, op_call, changelogVars, releaseVars>>

NextAddonNews == CallUpdateAddonNews

SpecAddonNews == InitAddonNews /\ [][NextAddonNews]_vars

----------------------------------------------------------------------------
(* Versions: semver.Version.parse, str(version), cli.bump_version *)

VersionParts == 0..MaxVersionPart

\* str(version) of a semantic version major.minor.patch
VersionString(major, minor, patch) ==
    ToString(major) \o "." \o ToString(minor) \o "." \o ToString(patch)

SemverStrings ==
    [t \in VersionParts \X VersionParts \X VersionParts
        |-> VersionString(t[1], t[2], t[3])]

\* semver.Version.parse(v) succeeds
IsSemver(v) == \E t \in DOMAIN SemverStrings : SemverStrings[t] = v

\* semver.Version.parse(v): major, minor and patch
SemverParse(v) == CHOOSE t \in DOMAIN SemverStrings : SemverStrings[t] = v

BumpTypes == {"major", "minor", "patch"}

BumpVersion_KeepPatch(current_version, bump_type) ==
    IF ~IsSemver(current_version) THEN None
    ELSE LET t == SemverParse(current_version)
         IN  IF bump_type = "major" THEN VersionString(t[1] + 1, 0, 0)
             ELSE IF bump_type = "minor"
             THEN VersionString(t[1], t[2] + 1, t[3])
             ELSE IF bump_type = "patch"
             THEN VersionString(t[1], t[2], t[3] + 1)
             ELSE None

\* bump_version: the new version string, None when it raises ValueError
BumpVersion(current_version, bump_type) ==
    IF ~IsSemver(current_version) THEN None
    ELSE LET t == SemverParse(current_version)
         IN  IF bump_type = "major" THEN VersionString(t[1] + 1, 0, 0)
             ELSE IF bump_type = "minor" THEN VersionString(t[1], t[2] + 1, 0)
             ELSE IF bump_type = "patch"
             THEN VersionString(t[1], t[2], t[3] + 1)
             ELSE None

\* current_version and bump_type of the bump_version tests: versions
\* major.minor.patch, strings that are no version, and other bump types
BumpInputs ==
    [current_version :
        { VersionString(t[1], t[2], t[3]) :
            t \in (0..(MaxVersionPart - 1)) \X (0..(MaxVersionPart - 1))
                    \X (0..(MaxVersionPart - 1)) }
        \cup {"", "1.0", "invalid", "1.0.0.0"},
     bump_type : BumpTypes \cup {"invalid", ""}]

InitBump ==
    /\ InitFormatter({[summary |-> <<"s">>, news |-> <<>>,
                       version |-> <<"1">>, date |-> <<>>]})
    /\ changelog = MissingFile
    /\ inserted = <<>>
    /\ addon_xml = MissingXml
    /\ news_call = NoNewsCall
    /\ dry_run_dir = NoDryRunDir
    /\ repo = RepoWith(MissingXml, MissingFile)
    /\ release = NoRelease
    /\ \E in \in BumpInputs :
          op_call = [op |-> "bump_version", done |-> FALSE,
                     current_version |-> in.current_version,
                     bump_type |-> in.bump_type,
                     raised |-> FALSE, result |-> None]

CallBumpVersion ==
    /\ op_call.op = "bump_version"
    /\ ~op_call.done
    /\ LET result == BumpVersion(op_call.current_version, op_call.bump_type)
       IN  op_call' = [op_call EXCEPT !.done = TRUE,
                                      !.raised = (result = None),
                                      !.result = result]
    /\ UNCHANGED <<formatterVars, hist, changelogVars, xmlVars, releaseVars>>

NextBump == CallBumpVersion

SpecBump == InitBump /\ [][NextBump]_vars

----------------------------------------------------------------------------
(* cli.validate_addon_xml, cli.update_addon_xml *)

\* the version validate_addon_xml reads before it checks the format: the
\* version attribute of the root if it is non-empty, else the text of the
\* <version> element of the metadata extension; None when it raises
ReadVersion(tree) ==
    IF tree.version # None /\ tree.version # ""
    THEN tree.version
    ELSE LET e == FindExtension(tree.elements)
         IN  IF e = 0 THEN None
             ELSE LET children == tree.elements[e].children
                      n == FindChild(children, "version")
                  IN  IF n = 0 THEN None ELSE children[n].text

\* validate_addon_xml: raised or the tree and the current version
ValidateAddonXml(file) ==
    IF ~file.exists \/ ~file.wellformed
    THEN [raised |-> TRUE, tree |-> ParseXml(MissingXml), version |-> None]
    ELSE LET tree == ParseXml(file)
             v == ReadVersion(tree)
         IN  IF v = None \/ ~IsSemver(v)
             THEN [raised |-> TRUE, tree |-> tree, version |-> None]
             ELSE [raised |-> FALSE, tree |-> tree, version |-> v]

\* the tree after update_addon_xml set the version: on the root when it has
\* a version attribute, else in the <version> element
SetVersion(tree, new_version) ==
    IF tree.version # None
    THEN [tree EXCEPT !.version = new_version]
    ELSE LET e == FindExtension(tree.elements)
             n == FindChild(tree.elements[e].children, "version")
         IN  [tree EXCEPT !.elements[e].children[n].text = new_version]

\* update_addon_xml: what it raises and the file it leaves
UpdateAddonXml(file, new_version) ==
    LET valid == ValidateAddonXml(file)
    IN  IF valid.raised THEN [raised |-> TRUE, file |-> file]
        ELSE [raised |-> FALSE,
              file |-> WriteXml(SetVersion(valid.tree, new_version))]

\* release, lines 636-637: root.set("version", new_version); tree.write
SetRootVersion(tree, new_version) == [tree EXCEPT !.version = new_version]

----------------------------------------------------------------------------
(* cli.release *)

\* the files addon.xml and CHANGELOG.md of a directory
AddonXmlAt(dir) == IF dir = DryRunDir THEN dry_run_dir.addon_xml ELSE addon_xml

ChangelogAt(dir) == IF dir = DryRunDir THEN dry_run_dir.changelog ELSE changelog

\* writing addon.xml of a directory
PutAddonXml(dir, file) ==
    /\ addon_xml' = IF dir = AddonDir THEN file ELSE addon_xml
    /\ dry_run_dir' = IF dir = DryRunDir
                      THEN [dry_run_dir EXCEPT !.addon_xml = file]
                      ELSE dry_run_dir

\* writing CHANGELOG.md of a directory
PutChangelog(dir, file) ==
    /\ changelog' = IF dir = AddonDir THEN file ELSE changelog
    /\ dry_run_dir' = IF dir = DryRunDir
                      THEN [dry_run_dir EXCEPT !.changelog = file]
                      ELSE dry_run_dir

At(position) == [release EXCEPT !.pc = position]

\* a step of the non-dry-run release was executed: did it succeed, and where
\* the command goes on (a failed step ends it)
Step(name, ok, position) ==
    [release EXCEPT !.pc = IF ok THEN position ELSE "failed",
                    !.steps = Append(@, [name |-> name, ok |-> ok])]

\* origin.push: the remote takes the push, the remote rejects it (push
\* returns, the error is in the returned list), or the call raises
PushOutcomes == {"accepted", "rejected", "raised"}

TagName_NoPrefix(new_version) == new_version

\* tag_name = f"v{new_version}"
TagName(new_version) == "v" \o new_version

ShortNews == Join(<<HeadingLine("Fixed"), <<"-", SP, "a">> >>, NL)

LongNews == Join(<<HeadingLine("Added"), <<"+", SP, LongWord>> >>, NL)

\* --summary and --news of the command
ReleaseInputs == [summary : {<<"s">>}, news : {ShortNews, LongNews}]

\* a CHANGELOG.md written by an earlier release
OldChangelog ==
    [exists |-> TRUE, content |-> CHANGELOG_HEADER \o EntryOf("1.0.0")]

\* addon.xml with the version on the root, with the version only in the
\* metadata extension, without metadata extension, and with a bad version
ReleaseAddonXmlFiles ==
    { XmlFile(TRUE, "1.0.0",
              <<MetadataExtension(<<SummaryChild, Child("news", OldNews)>>)>>),
      XmlFile(FALSE, None,
              <<OtherExtension,
                MetadataExtension(<<SummaryChild, Child("version", "1.2.0")>>)>>),
      XmlFile(FALSE, "1.0.0", <<OtherExtension>>),
      XmlFile(FALSE, "1.0", <<MetadataExtension(<<SummaryChild>>)>>) }

InitRelease ==
    /\ InitFormatter({[summary |-> <<>>, news |-> <<>>, version |-> <<>>,
                       date |-> <<>>]})
    /\ inserted = <<>>
    /\ news_call = NoNewsCall
    /\ addon_xml \in ReleaseAddonXmlFiles
    /\ changelog \in {MissingFile, OldChangelog}
    /\ dry_run_dir = NoDryRunDir
    /\ repo = RepoWith(addon_xml, changelog)
    /\ release = NoRelease
    /\ op_call = NoCall

\* release, lines 512-541: find addon.xml (with --addon-path in that
\* directory, else the first one find_addon_xml meets), validate it and bump
\* the version
ReleaseStart ==
    /\ release.pc \in {"idle", "done", "failed"}
    /\ release.runs < MaxReleases
    /\ \E bump_type \in BumpTypes, dry_run \in BOOLEAN, in \in ReleaseInputs,
          addon_path \in {None} \cup Dirs, addon_dir \in Dirs :
          /\ addon_path # None => addon_dir = addon_path
          /\ addon_path = None => AddonXmlAt(addon_dir).exists
          /\ addon_dir = DryRunDir => dry_run_dir.exists
          /\ LET valid == ValidateAddonXml(AddonXmlAt(addon_dir))
                 new_version == BumpVersion(valid.version, bump_type)
                 started ==
                    [pc |-> "construct", runs |-> release.runs + 1,
                     dry_run |-> dry_run, bump_type |-> bump_type,
                     addon_dir |-> addon_dir, addon_news |-> <<>>,
                     current_version |-> valid.version,
                     new_version |-> new_version, steps |-> <<>>,
                     before |-> [addon_xml |-> AddonXmlAt(addon_dir),
                                 changelog |-> ChangelogAt(addon_dir),
                                 project_xml |-> addon_xml,
                                 project_log |-> changelog,
                                 repo |-> repo],
                     previous |-> [pc |-> release.pc,
                                   dry_run |-> release.dry_run,
                                   bump_type |-> release.bump_type,
                                   news |-> arg_news,
                                   addon_dir |-> release.addon_dir,
                                   addon_xml |-> release.before.addon_xml]]
             IN  IF ~AddonXmlAt(addon_dir).exists \/ valid.raised
                 THEN /\ release' = [started EXCEPT !.pc = "failed"]
                      /\ UNCHANGED formatterVars
                 ELSE /\ IsSemver(new_version)
                      /\ release' = started
                      /\ arg_summary' = in.summary
                      /\ arg_news' = in.news
                      /\ arg_version' = <<new_version>>
                      /\ arg_date' = <<>>
                      /\ pc' = "start"
                      /\ summary' = <<>>
                      /\ news' = <<>>
                      /\ version' = <<>>
                      /\ date' = <<>>
                      /\ parsed_sections' = <<>>
                      /\ call' = [op |-> "none", custom_summary |-> <<>>]
                      /\ ret' = Returned(<<>>)
                      /\ UNCHANGED now
    /\ UNCHANGED <<hist, op_call, changelogVars, xmlVars, dry_run_dir, repo>>

\* lines 543-553: NewsFormatter(summary, news, new_version)
ReleaseConstruct ==
    /\ release.pc = "construct"
    /\ ConstructStep
    /\ release' = At(IF pc' # "ready" THEN "failed"
                     ELSE IF release.dry_run THEN "dry_mkdir"
                     ELSE "write_version")
    /\ UNCHANGED <<hist, op_call, changelogVars, xmlVars, dry_run_dir, repo>>

\* lines 563-566: dry_run_dir.mkdir(exist_ok=True)
DryRunMkdir ==
    /\ release.pc = "dry_mkdir"
    /\ dry_run_dir' = [dry_run_dir EXCEPT !.exists = TRUE]
    /\ release' = At("dry_addon_xml")
    /\ UNCHANGED <<formatterVars, hist, op_call, changelogVars, xmlVars, repo>>

\* lines 569-577: copy addon.xml, update_addon_xml, format_for_addon_news,
\* update_addon_news; a ValueError ends the command
DryRunAddonXml ==
    /\ release.pc = "dry_addon_xml"
    /\ LET copy == AddonXmlAt(release.addon_dir)
           bumped == UpdateAddonXml(copy, release.new_version)
           content == FormatForAddonNews(Self, release.addon_news)
           updated == UpdateAddonNews(bumped.file, content.value)
       IN  /\ RenderStep("format_for_addon_news", release.addon_news, content)
           /\ IF bumped.raised \/ ~content.ok \/ updated.raised
              THEN /\ dry_run_dir' = [dry_run_dir EXCEPT
                                        !.addon_xml = bumped.file]
                   /\ release' = At("failed")
              ELSE /\ dry_run_dir' = [dry_run_dir EXCEPT
                                        !.addon_xml = updated.file]
                   /\ release' = At("dry_changelog")
    /\ UNCHANGED <<hist, op_call, changelogVars, xmlVars, repo>>

\* lines 580-587: copy CHANGELOG.md and insert the entry; without a
\* CHANGELOG.md nothing is written (FileNotFoundError)
DryRunChangelog ==
    /\ release.pc = "dry_changelog"
    /\ LET copy == ChangelogAt(release.addon_dir)
           content == FormatForChangelog(Self)
       IN  IF copy.exists
           THEN /\ RenderStep("format_for_changelog", <<>>, Returned(content))
                /\ dry_run_dir' =
                      [dry_run_dir EXCEPT !.changelog =
                          [exists |-> TRUE,
                           content |-> UpdateChangelogWithContent(copy,
                                                                  content)]]
           ELSE UNCHANGED <<formatterVars, dry_run_dir>>
    /\ release' = At("dry_release_notes")
    /\ UNCHANGED <<hist, op_call, changelogVars, xmlVars, repo>>

\* lines 590-596: RELEASE_NOTES.md
DryRunReleaseNotes ==
    /\ release.pc = "dry_release_notes"
    /\ RenderStep("format_for_release_notes", <<>>,
                  Returned(FormatForReleaseNotes(Self)))
    /\ dry_run_dir' = [dry_run_dir EXCEPT !.release_notes =
                          [exists |-> TRUE,
                           content |-> FormatForReleaseNotes(Self)]]
    /\ release' = At("dry_git_commands")
    /\ UNCHANGED <<hist, op_call, changelogVars, xmlVars, repo>>

\* lines 599-630: git-commands.sh with the commit and tag commands
DryRunGitCommands ==
    /\ release.pc = "dry_git_commands"
    /\ RenderStep("format_for_commit", <<>>, Returned(FormatForCommit(Self)))
    /\ dry_run_dir' = [dry_run_dir EXCEPT !.git_commands =
                          [exists |-> TRUE,
                           commit_message |-> FormatForCommit(Self),
                           tag_name |-> TagName(release.new_version)]]
    /\ release' = At("done")
    /\ UNCHANGED <<hist, op_call, changelogVars, xmlVars, repo>>

\* lines 633-637: root.set("version", new_version); tree.write
WriteVersion ==
    /\ release.pc = "write_version"
    /\ PutAddonXml(release.addon_dir,
                   WriteXml(SetRootVersion(
                       ParseXml(AddonXmlAt(release.addon_dir)),
                       release.new_version)))
    /\ release' = Step("write_version", TRUE, "write_changelog")
    /\ UNCHANGED <<formatterVars, hist, op_call, changelogVars, news_call, repo>>

\* lines 640-641: format_for_changelog, update_changelog_with_content
WriteChangelog ==
    /\ release.pc = "write_changelog"
    /\ RenderStep("format_for_changelog", <<>>,
                  Returned(FormatForChangelog(Self)))
    /\ PutChangelog(release.addon_dir,
                    [exists |-> TRUE,
                     content |-> UpdateChangelogWithContent(
                                     ChangelogAt(release.addon_dir),
                                     FormatForChangelog(Self))])
    /\ release' = Step("write_changelog", TRUE, "write_news")
    /\ UNCHANGED <<hist, op_call, inserted, xmlVars, repo>>

\* lines 644-645: format_for_addon_news, update_addon_news; a ValueError
\* ends the command
WriteNews ==
    /\ release.pc = "write_news"
    /\ LET content == FormatForAddonNews(Self, release.addon_news)
           updated == UpdateAddonNews(AddonXmlAt(release.addon_dir),
                                      content.value)
       IN  /\ RenderStep("format_for_addon_news", release.addon_news, content)
           /\ IF ~content.ok \/ updated.raised
              THEN /\ release' = Step("write_news", FALSE, "hooks")
                   /\ UNCHANGED <<addon_xml, dry_run_dir>>
              ELSE /\ release' = Step("write_news", TRUE, "hooks")
                   /\ PutAddonXml(release.addon_dir, updated.file)
    /\ UNCHANGED <<hist, op_call, changelogVars, news_call, repo>>

(***************************************************************************)
(* git_operations.py: commit_changes and create_tag on the repository.     *)
(* A message is a token sequence; <<>> stands for None and for ''.         *)
(***************************************************************************)
MaxGitCalls == 3

NoChangesError == "No changes to commit"

TagExistsError == "Tag already exists"

\* git_operations.py lines 54-60; the result is the repository afterwards,
\* the exception raised (None when none) and whether a hash was returned
commit_changes_AlwaysCommit(r, message, allow_empty) ==
    [repo |-> [r EXCEPT !.head = r.index,
                        !.commits = Append(@, [message |-> message,
                                               allow_empty |-> allow_empty])],
     error |-> None, returned |-> TRUE]

commit_changes(r, message, allow_empty) ==
    IF ~allow_empty /\ r.index = r.head
    THEN [repo |-> r, error |-> NoChangesError, returned |-> FALSE]
    ELSE [repo |-> [r EXCEPT !.head = r.index,
                             !.commits = Append(@, [message |-> message,
                                                    allow_empty |-> allow_empty])],
          error |-> None, returned |-> TRUE]

\* git_operations.py lines 63-73
create_tag_NoExistsCheck(r, tag_name, message) ==
    [repo |-> [r EXCEPT !.tags = Append(@, [name |-> tag_name,
                                            message |-> message,
                                            annotated |-> message # <<>>])],
     error |-> None]

create_tag(r, tag_name, message) ==
    IF \E i \in 1..Len(r.tags) : r.tags[i].name = tag_name
    THEN [repo |-> r, error |-> TagExistsError]
    ELSE [repo |-> [r EXCEPT !.tags = Append(@, [name |-> tag_name,
                                                 message |-> message,
                                                 annotated |-> message # <<>>])],
          error |-> None]

GitTagNames == {"v1.0.0", "v1.0.1", "v1.1.0"}

GitMessages == {<<>>, <<"Release", SP, "v1.0.0">>}

GitWorkingTrees == {MissingFile, <<"x">>}

InitGit ==
    /\ InitFormatter({[summary |-> <<"s">>, news |-> <<>>,
                       version |-> <<"1">>, date |-> <<>>]})
    /\ changelog = MissingFile
    /\ inserted = <<>>
    /\ addon_xml = MissingXml
    /\ news_call = NoNewsCall
    /\ dry_run_dir = NoDryRunDir
    /\ repo = RepoWith(MissingXml, MissingFile)
    /\ release = NoRelease
    /\ op_call = [op |-> "none", calls |-> 0, tag_name |-> None,
                  message |-> <<>>, allow_empty |-> FALSE, error |-> None,
                  returned |-> FALSE, before |-> RepoWith(MissingXml, MissingFile)]

\* stage_changes with a working tree whose CHANGELOG.md is log
CallStageChanges ==
    /\ op_call.calls < MaxGitCalls
    /\ \E log \in GitWorkingTrees :
          /\ repo' = [repo EXCEPT !.index[AddonDir].changelog = log]
          /\ op_call' = [op |-> "stage_changes", calls |-> op_call.calls + 1,
                         tag_name |-> None, message |-> <<>>,
                         allow_empty |-> FALSE, error |-> None,
                         returned |-> FALSE, before |-> repo]
    /\ UNCHANGED <<formatterVars, hist, changelogVars, xmlVars, dry_run_dir,
                   release>>

CallCommitChanges ==
    /\ op_call.calls < MaxGitCalls
    /\ \E message \in GitMessages \ {<<>>}, allow_empty \in BOOLEAN :
          LET result == commit_changes(repo, message, allow_empty)
          IN  /\ repo' = result.repo
              /\ op_call' = [op |-> "commit_changes",
                             calls |-> op_call.calls + 1,
                             tag_name |-> None, message |-> message,
                             allow_empty |-> allow_empty,
                             error |-> result.error,
                             returned |-> result.returned, before |-> repo]
    /\ UNCHANGED <<formatterVars, hist, changelogVars, xmlVars, dry_run_dir,
                   release>>

CallCreateTag ==
    /\ op_call.calls < MaxGitCalls
    /\ \E tag_name \in GitTagNames, message \in GitMessages :
          LET result == create_tag(repo, tag_name, message)
          IN  /\ repo' = result.repo
              /\ op_call' = [op |-> "create_tag",
                             calls |-> op_call.calls + 1,
                             tag_name |-> tag_name, message |-> message,
                             allow_empty |-> FALSE, error |-> result.error,
                             returned |-> FALSE, before |-> repo]
    /\ UNCHANGED <<formatterVars, hist, changelogVars, xmlVars, dry_run_dir,
                   release>>

NextGit ==
    \/ CallStageChanges
    \/ CallCommitChanges
    \/ CallCreateTag

SpecGit == InitGit /\ [][NextGit]_vars

\* lines 656-659: run_pre_commit_hooks passes or fails
RunPreCommitHooks ==
    /\ release.pc = "hooks"
    /\ \E passed \in BOOLEAN :
          release' = Step("hooks", passed, "stage")
    /\ UNCHANGED <<formatterVars, hist, op_call, changelogVars, xmlVars, dry_run_dir,
                   repo>>

\* lines 662-672: stage_changes(repo, [addon.xml, CHANGELOG.md])
StageChanges ==
    /\ release.pc = "stage"
    /\ repo' = [repo EXCEPT !.index[release.addon_dir] =
                  [addon_xml |-> AddonXmlAt(release.addon_dir),
                   changelog |-> ChangelogAt(release.addon_dir)]]
    /\ release' = Step("stage", TRUE, "commit")
    /\ UNCHANGED <<formatterVars, hist, op_call, changelogVars, xmlVars, dry_run_dir>>

\* lines 675-680 and commit_changes: no commit when the index equals HEAD
CommitChanges ==
    /\ release.pc = "commit"
    /\ LET commit_message == FormatForCommit(Self)
           allow_empty == FALSE
       IN  /\ RenderStep("format_for_commit", <<>>, Returned(commit_message))
           /\ LET result == commit_changes(repo, commit_message, allow_empty)
              IN  /\ release' = Step("commit", result.error = None, "tag")
                  /\ repo' = result.repo
    /\ UNCHANGED <<hist, op_call, changelogVars, xmlVars, dry_run_dir>>

\* lines 683-689 and create_tag: no second tag of the same name
CreateTag ==
    /\ release.pc = "tag"
    /\ LET tag_name == TagName(release.new_version)
           tag_message == repo.commits[Len(repo.commits)].message
           result == create_tag(repo, tag_name, tag_message)
       IN  /\ release' = Step("tag", result.error = None, "push_commits")
           /\ repo' = result.repo
    /\ UNCHANGED <<formatterVars, hist, op_call, changelogVars, xmlVars, dry_run_dir>>

\* lines 692-697: push_commits(repo, "origin", None)
PushCommits ==
    /\ release.pc = "push_commits"
    /\ \E outcome \in PushOutcomes :
          /\ repo' = IF outcome = "accepted"
                     THEN [repo EXCEPT !.pushed_commits = Len(repo.commits)]
                     ELSE repo
          /\ release' = [Step("push_commits", outcome = "accepted",
                              "push_tags")
                            EXCEPT !.pc = IF outcome = "raised" THEN "failed"
                                          ELSE "push_tags"]
    /\ UNCHANGED <<formatterVars, hist, op_call, changelogVars, xmlVars, dry_run_dir>>

\* lines 700-706: push_tags(repo, "origin")
PushTags ==
    /\ release.pc = "push_tags"
    /\ \E outcome \in PushOutcomes :
          /\ repo' = IF outcome = "accepted"
                     THEN [repo EXCEPT !.pushed_tags =
                             {repo.tags[i].name : i \in 1..Len(repo.tags)}]
                     ELSE repo
          /\ release' = [Step("push_tags", outcome = "accepted", "done")
                            EXCEPT !.pc = IF outcome = "raised" THEN "failed"
                                          ELSE "done"]
    /\ UNCHANGED <<formatterVars, hist, op_call, changelogVars, xmlVars, dry_run_dir>>

NextRelease ==
    \/ ReleaseStart
    \/ ReleaseConstruct
    \/ DryRunMkdir
    \/ DryRunAddonXml
    \/ DryRunChangelog
    \/ DryRunReleaseNotes
    \/ DryRunGitCommands
    \/ WriteVersion
    \/ WriteChangelog
    \/ WriteNews
    \/ RunPreCommitHooks
    \/ StageChanges
    \/ CommitChanges
    \/ CreateTag
    \/ PushCommits
    \/ PushTags

SpecRelease == InitRelease /\ [][NextRelease]_vars

----------------------------------------------------------------------------
(* What the properties below talk about *)

\* every heading occurrence the split finds, with the bullets under it
Occurrences ==
    [k \in 1..Len(Parts(news)) |->
        [name |-> Lower(Parts(news)[k].name),
         bullets |-> ExtractBullets(Parts(news)[k].content)]]

RECURSIVE BulletsOfAll(_, _)
BulletsOfAll(occs, name) ==
    IF occs = <<>> THEN <<>>
    ELSE (IF Head(occs).name = name THEN Head(occs).bullets ELSE <<>>)
             \o BulletsOfAll(Tail(occs), name)

FirstOccurrence(name) ==
    CHOOSE k \in 1..Len(Occurrences) :
        Occurrences[k].name = name
            /\ \A j \in 1..(k - 1) : Occurrences[j].name # name

RECURSIVE IsSubsequence(_, _)
IsSubsequence(a, b) ==
    IF a = <<>> THEN TRUE
    ELSE IF b = <<>> THEN FALSE
    ELSE IF Head(a) = Head(b) THEN IsSubsequence(Tail(a), Tail(b))
    ELSE IsSubsequence(a, Tail(b))

\* the (category, item) pairs of the parsed mapping, in mapping order
RECURSIVE ItemPairs(_)
ItemPairs(sections) ==
    IF sections = <<>> THEN <<>>
    ELSE [j \in 1..Len(Head(sections).bullets) |->
             [name |-> Head(sections).name, item |-> Head(sections).bullets[j]]]
         \o ItemPairs(Tail(sections))

SectionNames == {parsed_sections[k].name : k \in 1..Len(parsed_sections)}

AddonNewsReturned == call.op = "format_for_addon_news" /\ ret.ok

ResultLines == Split(ret.value, NL)

FixedCodes ==
    [added |-> "new", fixed |-> "fix", changed |-> "upd",
     deprecated |-> "dep", removed |-> "rem", security |-> "sec"]

\* a line '### Foobar' directly followed by a bullet line
FoobarBulletIn(lines) ==
    { i \in 1..(Len(lines) - 1) :
        lines[i] = HeadingLine("Foobar") /\ StartsWithBullet(Strip(lines[i + 1])) }

----------------------------------------------------------------------------
(* C1: every formatter whose construction succeeds has a non-empty parsed  *)
(* mapping: at least one category, every category with at least one item,  *)
(* every item non-empty.                                                   *)
C1_NonEmptyChangeSet ==
    pc = "ready" =>
        /\ parsed_sections # <<>>
        /\ \A k \in 1..Len(parsed_sections) :
              /\ parsed_sections[k].bullets # <<>>
              /\ \A j \in 1..Len(parsed_sections[k].bullets) :
                    parsed_sections[k].bullets[j] # <<>>

(* C2: when a category heading occurs more than once, the parsed items of  *)
(* the category are the bullets of all its occurrences, concatenated in    *)
(* source order; no occurrence's items are lost.                           *)
C2_DuplicateHeadingsAppend ==
    pc = "ready" =>
        /\ \A k \in 1..Len(parsed_sections) :
              parsed_sections[k].bullets
                  = BulletsOfAll(Occurrences, parsed_sections[k].name)
        /\ \A k \in 1..Len(Occurrences) :
              Occurrences[k].bullets # <<>>
                  => Occurrences[k].name \in SectionNames

(* C3: the categories of the parsed mapping are ordered by the first       *)
(* occurrence of their heading in the source, the items of a category are  *)
(* in source order, and the manifest news lists them in that order.        *)
C3_FirstSeenOrder ==
    (pc = "ready" /\ parsed_sections # <<>>) =>
        /\ \A i, j \in 1..Len(parsed_sections) :
              i < j => FirstOccurrence(parsed_sections[i].name)
                           < FirstOccurrence(parsed_sections[j].name)
        /\ \A k \in 1..Len(parsed_sections) :
              IsSubsequence(parsed_sections[k].bullets,
                            BulletsOfAll(Occurrences, parsed_sections[k].name))
        /\ AddonNewsReturned =>
              \A k \in 1..Len(ItemPairs(parsed_sections)) :
                  /\ 2 + k <= Len(ResultLines)
                  /\ ResultLines[2 + k]
                        = BracketCode(ItemPairs(parsed_sections)[k].name)
                            \o <<SP>> \o ItemPairs(parsed_sections)[k].item

(* C4: with non-empty summary and version, a non-empty news text in which  *)
(* no line is a recognized category heading fails construction with the    *)
(* error that names the expected headers, and no formatter exists.         *)
C4_NoHeadingFails ==
    (/\ pc # "start"
     /\ Strip(arg_summary) # <<>>
     /\ Strip(arg_version) # <<>>
     /\ Strip(arg_news) # <<>>
     /\ SectionStarts(Strip(arg_news)) = <<>>) =>
        /\ pc = "failed"
        /\ ~ret.ok /\ ret.error = NoHeaderError
        /\ summary = <<>> /\ news = <<>> /\ version = <<>>
        /\ parsed_sections = <<>>

(* C5: format_for_addon_news never returns more than 1500 characters: an   *)
(* assembled text of length <= 1500 is returned, one of length L > 1500    *)
(* raises the length error reporting exactly L.                            *)
C5_AddonNewsLengthLimit ==
    call.op = "format_for_addon_news" =>
        LET text == Join(AddonNewsLines(Self, call.custom_summary), NL)
        IN  /\ ret.ok => TextLen(ret.value) <= 1500
            /\ TextLen(text) <= 1500 => ret = Returned(text)
            /\ TextLen(text) > 1500 =>
                  /\ ~ret.ok
                  /\ ret.error = TooLongError
                  /\ ret.len = TextLen(text)

C5_Witness ==
    /\ call.op = "format_for_addon_news"
    /\ ret.ok
    /\ TextLen(ret.value) = 1500

(* C6: a successful format_for_addon_news result has exactly 2 + N lines,  *)
(* N the number of parsed items: 'v{version} ({date})', the effective      *)
(* summary, then '{bracket_code} {item}' for the k-th item in category     *)
(* order then item order.                                                  *)
C6_AddonNewsLayout ==
    AddonNewsReturned =>
        LET pairs == ItemPairs(parsed_sections)
        IN  /\ Len(ResultLines) = 2 + Len(pairs)
            /\ ResultLines[1]
                  = <<"v">> \o version \o <<SP, "(">> \o date \o <<")">>
            /\ ResultLines[2]
                  = (IF call.custom_summary # <<>>
                     THEN call.custom_summary ELSE summary)
            /\ \A k \in 1..Len(pairs) :
                  ResultLines[2 + k]
                      = BracketCode(pairs[k].name) \o <<SP>> \o pairs[k].item

C6_Witness ==
    /\ AddonNewsReturned
    /\ Len(parsed_sections) >= 2
    /\ Len(ItemPairs(parsed_sections)) >= 3

(* C7: a non-empty custom_summary changes only the second line of the      *)
(* manifest news; the first line and every item line are those of the      *)
(* render without custom_summary; no or an empty custom_summary gives the  *)
(* formatter's own summary on line 2.                                      *)
C7_CustomSummaryOnlyLineTwo ==
    AddonNewsReturned =>
        LET plain == FormatForAddonNews(Self, <<>>)
            plainLines == Split(plain.value, NL)
        IN  /\ Len(ResultLines) >= 2
            /\ call.custom_summary # <<>> => ResultLines[2] = call.custom_summary
            /\ call.custom_summary = <<>> => ResultLines[2] = summary
            /\ plain.ok =>
                  /\ Len(ResultLines) = Len(plainLines)
                  /\ \A k \in 1..Len(ResultLines) :
                        k # 2 => ResultLines[k] = plainLines[k]
                  /\ plainLines[2] = summary

C7_Witness ==
    /\ AddonNewsReturned
    /\ call.custom_summary # <<>>
    /\ call.custom_summary # summary
    /\ FormatForAddonNews(Self, <<>>).ok
    /\ Len(ResultLines) >= 4

(* C8: each of the six categories, in any letter case of its heading, is   *)
(* rendered with its fixed code new/fix/upd/dep/rem/sec; the code table is *)
(* total and injective on the six categories.                              *)
C8_FixedBracketCodes ==
    /\ \A a, b \in CategoryNames :
          /\ a \in DOMAIN BRACKET_CODES
          /\ BracketCode(a) = <<"[", FixedCodes[a], "]">>
          /\ a # b => BracketCode(a) # BracketCode(b)
    /\ pc = "ready" =>
          \A k \in 1..Len(Parts(news)) :
              LET word == Parts(news)[k].name
              IN  /\ \E c \in CategoryNames :
                        word \in {c, Capitalized[c], UpperCased[c]}
                  /\ ExtractBullets(Parts(news)[k].content) # <<>> =>
                        \E c \in SectionNames \cap CategoryNames :
                            word \in {c, Capitalized[c], UpperCased[c]}
    /\ AddonNewsReturned =>
          LET pairs == ItemPairs(parsed_sections)
          IN  \A k \in 1..Len(pairs) :
                  /\ pairs[k].name \in CategoryNames
                  /\ 2 + k <= Len(ResultLines)
                  /\ ResultLines[2 + k]
                        = <<"[", FixedCodes[pairs[k].name], "]", SP>>
                              \o pairs[k].item

C8_Witness ==
    /\ AddonNewsReturned
    /\ arg_news = Join(<<HeadingLine("SECURITY"), <<"-", SP, "a">> >>, NL)
    /\ ResultLines[3] = <<"[", "sec", "]", SP, "a">>

(* C9 as stated: a '### Foobar' heading followed by a bullet yields a      *)
(* category of its own, rendered '[foo] item' in the manifest news and     *)
(* under a '### Foobar' heading in the changelog and the release notes.    *)
C9_UnknownHeadingOwnCategory ==
    (pc = "ready" /\ FoobarBulletIn(Split(news, NL)) # {}) =>
        /\ "foobar" \in SectionNames
        /\ AddonNewsReturned =>
              \E k \in 1..Len(ResultLines) :
                  /\ Len(ResultLines[k]) > 4
                  /\ SubSeq(ResultLines[k], 1, 4) = <<"[", "foo", "]", SP>>
        /\ call.op \in {"format_for_changelog", "format_for_release_notes"} =>
              \E k \in 1..Len(ResultLines) :
                  ResultLines[k] = HeadingLine("Foobar")

(* C9 amended: a '### Foobar' heading never yields a category: every       *)
(* segment starts at one of the six category names, the Foobar line and    *)
(* the bullets under it belong to the segment they lie in, every parsed    *)
(* category is one of the six, and no render shows '[foo]' or '### Foobar'.*)
C9_UnknownHeadingIgnored ==
    pc = "ready" =>
        /\ SectionNames \subseteq CategoryNames
        /\ \A k \in 1..Len(Parts(news)) :
              LET lines == Split(Parts(news)[k].content, NL)
              IN  /\ Lower(Parts(news)[k].name) \in CategoryNames
                  /\ \A i \in FoobarBulletIn(lines) :
                        \E j \in 1..Len(Occurrences[k].bullets) :
                            Occurrences[k].bullets[j]
                                = RemoveMarker(Strip(lines[i + 1]))
        /\ AddonNewsReturned =>
              \A k \in 3..Len(ResultLines) :
                  \E c \in CategoryNames :
                      SubSeq(ResultLines[k], 1, 4)
                          = <<"[", FixedCodes[c], "]", SP>>
        /\ call.op \in {"format_for_changelog", "format_for_release_notes"} =>
              \A k \in 1..Len(ResultLines) :
                  ResultLines[k] # HeadingLine("Foobar")

C9_Witness ==
    /\ AddonNewsReturned
    /\ FoobarBulletIn(Split(news, NL)) # {}
    /\ \E k \in 1..Len(ResultLines) :
          ResultLines[k] = <<"[", "new", "]", SP, "x">>

(* C10: format_for_commit returns exactly 'release: ' + version + ' - ' +  *)
(* summary with the whitespace-trimmed version and summary, and never      *)
(* fails.                                                                  *)
C10_CommitMessage ==
    call.op = "format_for_commit" =>
        /\ ret.ok
        /\ ret.value = <<"release:", SP>> \o Strip(arg_version)
                           \o <<SP, "-", SP>> \o Strip(arg_summary)
        /\ ret.value[3] # SP /\ ret.value[Len(ret.value)] \notin Whitespace

C10_Witness ==
    /\ call.op = "format_for_commit"
    /\ arg_summary # Strip(arg_summary)
    /\ arg_version # Strip(arg_version)
    /\ ret.ok

RECURSIVE ExpectedSectionLines(_)
ExpectedSectionLines(sections) ==
    IF sections = <<>> THEN <<>>
    ELSE << <<"#", "#", "#", SP, Capitalized[Head(sections).name]>> >>
         \o [j \in 1..Len(Head(sections).bullets) |->
                <<"-", SP>> \o Head(sections).bullets[j]]
         \o << <<>> >>
         \o ExpectedSectionLines(Tail(sections))

ExpectedEntryHeader ==
    <<"#", "#", SP, "[">> \o version \o <<"]", SP, "-", SP>> \o date
        \o <<SP, "-", SP>> \o summary

(* C11: format_for_changelog returns an empty first line, the line         *)
(* '## [{version}] - {date} - {summary}', an empty line, then per parsed   *)
(* category in order '### {Category}' (first letter capitalized, the rest  *)
(* lower case), one '- {item}' line per item and a blank line; the result  *)
(* ends with exactly one newline and has no other trailing whitespace.     *)
C11_ChangelogLayout ==
    call.op = "format_for_changelog" =>
        /\ ret.ok
        /\ ResultLines = << <<>>, ExpectedEntryHeader, <<>> >>
                             \o ExpectedSectionLines(parsed_sections)
        /\ Len(ret.value) >= 2
        /\ ret.value[Len(ret.value)] = NL
        /\ ret.value[Len(ret.value) - 1] \notin Whitespace

C11_Witness ==
    /\ call.op = "format_for_changelog"
    /\ Len(parsed_sections) >= 2
    /\ \E i \in 1..Len(arg_news) : arg_news[i] = "FIXED"
    /\ \E k \in 1..Len(ResultLines) : ResultLines[k] = HeadingLine("Fixed")

(* C12: format_for_release_notes is the title line '# Release Notes -      *)
(* {version}', a newline, and then exactly the output of                   *)
(* format_for_changelog.                                                   *)
C12_ReleaseNotesIsTitledChangelog ==
    call.op = "format_for_release_notes" =>
        /\ ret.ok
        /\ ret.value = <<"#", SP, "Release", SP, "Notes", SP, "-", SP>>
                           \o version \o <<NL>> \o FormatForChangelog(Self)

C12_Witness ==
    /\ call.op = "format_for_release_notes"
    /\ Len(parsed_sections) >= 2
    /\ Len(ItemPairs(parsed_sections)) >= 3

IsBlank(s) == \A i \in 1..Len(s) : s[i] \in {SP, NL, CR}

FirstFailingCheck ==
    IF IsBlank(arg_summary) THEN EmptySummaryError
    ELSE IF IsBlank(arg_news) THEN EmptyNewsError
    ELSE IF IsBlank(arg_version) THEN EmptyVersionError
    ELSE IF ~HasHeader(Strip(arg_news)) THEN NoHeaderError
    ELSE ""

(* C13: construction fails whenever summary, news or version is empty or   *)
(* whitespace-only; the checks run in the order summary, news, version,    *)
(* header presence, the error is that of the first failing one, and        *)
(* nothing is parsed when a check fails.                                   *)
C13_ValidationOrder ==
    pc # "start" =>
        /\ FirstFailingCheck # "" =>
              /\ pc = "failed"
              /\ ~ret.ok /\ ret.error = FirstFailingCheck
              /\ parsed_sections = <<>>
        /\ FirstFailingCheck = "" => pc = "ready"

C13_Witness ==
    /\ pc = "failed"
    /\ ~IsBlank(arg_summary)
    /\ IsBlank(arg_news)
    /\ IsBlank(arg_version)
    /\ ret.error = EmptyNewsError

\* the texts of the bullet lines of a segment: marker '- ', '* ' or '+ '
\* and a non-empty text, surrounding whitespace removed
RECURSIVE BulletTexts(_)
BulletTexts(lines) ==
    IF lines = <<>> THEN <<>>
    ELSE LET line == Strip(Head(lines))
             isBullet == /\ Len(line) >= 3
                         /\ line[1] \in {"-", "*", "+"}
                         /\ line[2] = SP
         IN  (IF isBullet THEN <<Strip(SubSeq(line, 3, Len(line)))>> ELSE <<>>)
                 \o BulletTexts(Tail(lines))

(* C15: every bullet line under a recognized heading is recovered as its   *)
(* text t, and t is an item line of the changelog ('- t'), the release     *)
(* notes ('- t') and the manifest news ('{code} t').                       *)
C15_BulletRoundTrip ==
    pc = "ready" =>
        \A k \in 1..Len(Parts(news)) :
            LET texts == BulletTexts(Split(Parts(news)[k].content, NL))
                name == Lower(Parts(news)[k].name)
            IN  \A j \in 1..Len(texts) :
                    /\ \E i \in 1..Len(parsed_sections) :
                          /\ parsed_sections[i].name = name
                          /\ \E b \in 1..Len(parsed_sections[i].bullets) :
                                parsed_sections[i].bullets[b] = texts[j]
                    /\ call.op \in {"format_for_changelog",
                                    "format_for_release_notes"} =>
                          \E l \in 1..Len(ResultLines) :
                              ResultLines[l] = <<"-", SP>> \o texts[j]
                    /\ AddonNewsReturned =>
                          \E l \in 1..Len(ResultLines) :
                              ResultLines[l]
                                  = BracketCode(name) \o <<SP>> \o texts[j]

(* C14: after any sequence of render calls, failing ones included, a       *)
(* render called again with the same arguments returns what its first call *)
(* returned, and no render changes summary, news, version, date or the     *)
(* parsed mapping.                                                         *)
C14_RendersRepeatable ==
    pc = "ready" =>
        /\ Self = hist.self
        /\ \A h \in hist.results :
              (h.op = call.op /\ h.custom_summary = call.custom_summary)
                  => ret = h.ret

C14_Witness ==
    /\ pc = "ready"
    /\ hist.repeat
    /\ call.op = "format_for_changelog"
    /\ hist.days = {1, 2}
    /\ \E h \in hist.results : h.op = "format_for_addon_news" /\ ~h.ret.ok

\* the date string a render shows
DateShown(op, text) ==
    LET lines == Split(text, NL)
    IN  IF op = "format_for_changelog"
        THEN SubSeq(lines[2], 9 + Len(version), 9 + Len(version))
        ELSE IF op = "format_for_release_notes"
        THEN SubSeq(lines[3], 9 + Len(version), 9 + Len(version))
        ELSE SubSeq(lines[1], 4 + Len(version), 4 + Len(version))

DatedRenders ==
    {"format_for_changelog", "format_for_release_notes",
     "format_for_addon_news"}

(* C16: the date of a formatter is fixed at construction, the supplied     *)
(* date or the construction day as YYYY-MM-DD, and every changelog entry,  *)
(* release notes and manifest news of the formatter shows that date, also  *)
(* when the clock has moved to another day between the calls.              *)
C16_DateFixedAtConstruction ==
    pc = "ready" =>
        /\ date = (IF arg_date # <<>> THEN arg_date
                   ELSE <<DayNames[hist.day]>>)
        /\ TextLen(date) = 10
        /\ \A h \in hist.results :
              (h.op \in DatedRenders /\ h.ret.ok)
                  => DateShown(h.op, h.ret.value) = date
        /\ (call.op \in DatedRenders /\ ret.ok)
              => DateShown(call.op, ret.value) = date

C16_Witness ==
    /\ pc = "ready"
    /\ arg_date = <<>>
    /\ hist.day = 1
    /\ now = 2
    /\ hist.days = {1, 2}
    /\ {h.op : h \in hist.results} = {"format_for_changelog",
                                      "format_for_release_notes",
                                      "format_for_addon_news"}
    /\ hist.repeat

RECURSIVE NewestFirst(_)
NewestFirst(entries) ==
    IF entries = <<>> THEN <<>>
    ELSE NewestFirst(Tail(entries)) \o Head(entries)

(* C17: after every update_changelog_with_content call of a sequence that  *)
(* starts from a missing file, the changelog is the standard header, which *)
(* ends in the '---' separator line, followed by all inserted entries, the *)
(* newest first; and the call keeps all text the file had before it, in    *)
(* the same order, around the new entry.                                   *)
C17_ChangelogNewestFirst ==
    [][ changelog'.exists =>
          /\ SubSeq(CHANGELOG_HEADER, Len(CHANGELOG_HEADER) - 4,
                    Len(CHANGELOG_HEADER)) = <<NL, "-", "-", "-", NL>>
          /\ changelog'.content = CHANGELOG_HEADER \o NewestFirst(inserted')
          /\ changelog.exists =>
                \E k \in 0..Len(changelog.content) :
                    changelog'.content
                        = SubSeq(changelog.content, 1, k)
                            \o inserted'[Len(inserted')]
                            \o SubSeq(changelog.content, k + 1,
                                      Len(changelog.content)) ]_vars

C17_Witness ==
    /\ changelog.exists
    /\ Len(inserted) = 3
    /\ inserted[1] = EntryOf("1.0.1")
    /\ inserted[2] = <<"x", NL, "-", "-", "-", NL, "y", NL>>
    /\ inserted[3] = EntryOf("1.0.2")

\* the document without the news element update_addon_news writes to
WithoutNews(file) ==
    LET e == FindExtension(file.elements)
        children == file.elements[e].children
        n == FindChild(children, "news")
    IN  [file EXCEPT !.elements[e].children =
            SubSeq(children, 1, n - 1) \o SubSeq(children, n + 1, Len(children))]

\* the news element update_addon_news writes to holds the given text
NewsWritten ==
    LET e == FindExtension(addon_xml.elements)
        n == FindChild(addon_xml.elements[e].children, "news")
    IN  /\ addon_xml.exists /\ addon_xml.wellformed
        /\ e # 0 /\ n # 0
        /\ addon_xml.elements[e].children[n].text = news_call.news_content

ValidWithMetadata(file) ==
    file.wellformed /\ FindExtension(file.elements) # 0

(* C19 as stated: on a valid addon.xml with a metadata extension the call  *)
(* leaves a news element with exactly the given text in that extension and *)
(* changes nothing else in the document; on invalid XML or a missing       *)
(* extension it raises ValueError and the file is unchanged.               *)
C19_NothingElseChanged ==
    news_call.done > 0 =>
        IF ValidWithMetadata(news_call.before)
        THEN /\ ~news_call.raised
             /\ NewsWritten
             /\ FindExtension(addon_xml.elements)
                    = FindExtension(news_call.before.elements)
             /\ IF FindChild(news_call.before.elements[
                        FindExtension(news_call.before.elements)].children,
                        "news") = 0
                THEN WithoutNews(addon_xml) = news_call.before
                ELSE WithoutNews(addon_xml) = WithoutNews(news_call.before)
        ELSE news_call.raised /\ addon_xml = news_call.before

\* the elements, attributes and texts of a document
TreeOf(file) == [file EXCEPT !.comments = FALSE]

(* C19, amended: the news element holds exactly the given text, and no     *)
(* element, attribute or text elsewhere in the document changes; the file  *)
(* is written from the parsed tree, so it holds no comments afterwards.    *)
(* On invalid XML or a missing extension the call raises ValueError and    *)
(* the file is unchanged.                                                  *)
C19_NoOtherElementChanged ==
    news_call.done > 0 =>
        IF ValidWithMetadata(news_call.before)
        THEN /\ ~news_call.raised
             /\ NewsWritten
             /\ ~addon_xml.comments
             /\ FindExtension(addon_xml.elements)
                    = FindExtension(news_call.before.elements)
             /\ IF FindChild(news_call.before.elements[
                        FindExtension(news_call.before.elements)].children,
                        "news") = 0
                THEN WithoutNews(addon_xml) = TreeOf(news_call.before)
                ELSE WithoutNews(addon_xml)
                        = TreeOf(WithoutNews(news_call.before))
        ELSE /\ news_call.raised
             /\ news_call.error \in {InvalidXmlError, UpdateNewsError}
             /\ addon_xml = news_call.before

C19_Witness ==
    /\ news_call.done = 1
    /\ ~news_call.raised
    /\ news_call.before.comments
    /\ FindChild(news_call.before.elements[1].children, "news") = 3
    /\ news_call.before.elements[1].children[3].text = OldNews
    /\ news_call.news_content = <<"[new]", SP, "New", SP, "feature">>
    /\ NewsWritten

\* the bumped version of a release: bump_version of the version the
\* addon.xml held when the command started
BumpedVersion ==
    BumpVersion(ReadVersion(ParseXml(release.before.addon_xml)),
                release.bump_type)

Committed == release.pc \in {"tag", "push_commits", "push_tags", "done"}

Tagged == release.pc \in {"push_commits", "push_tags", "done"}

C20_DryRunLeavesOriginals ==
    release.dry_run =>
        /\ AddonXmlAt(release.addon_dir) = release.before.addon_xml
        /\ ChangelogAt(release.addon_dir) = release.before.changelog
        /\ addon_xml = release.before.project_xml
        /\ changelog = release.before.project_log
        /\ repo = release.before.repo
        /\ ReadVersion(ParseXml(AddonXmlAt(release.addon_dir)))
              = ReadVersion(ParseXml(release.before.addon_xml))

\* a < b in semver order, for versions major.minor.patch
SemverLess(a, b) ==
    \/ a[1] < b[1]
    \/ a[1] = b[1] /\ a[2] < b[2]
    \/ a[1] = b[1] /\ a[2] = b[2] /\ a[3] < b[3]

(* C21: bump_version of a version M.m.p returns (M+1).0.0 for 'major',    *)
(* M.(m+1).0 for 'minor' and M.m.(p+1) for 'patch', which is strictly     *)
(* greater than the input in semver order; with another bump type or a    *)
(* string that is no version it raises ValueError and returns no version. *)
C21_BumpVersion ==
    (op_call.op = "bump_version" /\ op_call.done) =>
        IF IsSemver(op_call.current_version) /\ op_call.bump_type \in BumpTypes
        THEN LET t == SemverParse(op_call.current_version)
             IN  /\ ~op_call.raised
                 /\ op_call.bump_type = "major" =>
                       op_call.result = VersionString(t[1] + 1, 0, 0)
                 /\ op_call.bump_type = "minor" =>
                       op_call.result = VersionString(t[1], t[2] + 1, 0)
                 /\ op_call.bump_type = "patch" =>
                       op_call.result = VersionString(t[1], t[2], t[3] + 1)
                 /\ IsSemver(op_call.result)
                 /\ SemverLess(t, SemverParse(op_call.result))
        ELSE op_call.raised /\ op_call.result = None

C21_Witness ==
    /\ op_call.op = "bump_version" /\ op_call.done
    /\ op_call.current_version = "1.2.2"
    /\ op_call.bump_type = "minor"
    /\ op_call.result = "1.3.0"

\* the whole line is '###', one or more spaces and a category name
IsWholeLineHeading(line) ==
    /\ Len(line) >= 5
    /\ line[1] = "#" /\ line[2] = "#" /\ line[3] = "#"
    /\ \A j \in 4..(Len(line) - 1) : line[j] = SP
    /\ IsCategoryWord(line[Len(line)])

WholeLineHeadings(n) ==
    {k \in 1..Len(Split(n, NL)) : IsWholeLineHeading(Split(n, NL)[k])}

(* C22: validation and parser agree on what a heading is: with non-empty   *)
(* summary, news and version, construction succeeds exactly when some line *)
(* of the news is, as a whole, '###', spaces and one of the six category   *)
(* names; otherwise it fails with the header error; and the parser starts  *)
(* a section at exactly these lines.                                       *)
C22_ValidationMatchesParser ==
    (/\ pc # "start"
     /\ Strip(arg_summary) # <<>>
     /\ Strip(arg_version) # <<>>
     /\ Strip(arg_news) # <<>>) =>
        /\ pc = "ready" <=> WholeLineHeadings(Strip(arg_news)) # {}
        /\ pc = "failed" => ret.error = NoHeaderError
        /\ Len(SectionStarts(Strip(arg_news)))
              = Cardinality(WholeLineHeadings(Strip(arg_news)))

\* the item of each line that, without surrounding whitespace, is a bullet
\* marker, whitespace and a text: that text; other lines give nothing
RECURSIVE ItemsOfLines(_)
ItemsOfLines(lines) ==
    IF lines = <<>> THEN <<>>
    ELSE LET line == Strip(Head(lines))
         IN  (IF /\ Len(line) >= 3
                 /\ line[1] \in {"-", "*", "+"}
                 /\ line[2] = SP
              THEN <<LStrip(SubSeq(line, 3, Len(line)))>>
              ELSE <<>>) \o ItemsOfLines(Tail(lines))

\* the lines after the first recognized heading
LinesAfterFirstHeading(n) ==
    LET lines == Split(n, NL)
        first == CHOOSE k \in WholeLineHeadings(n) :
                    \A j \in WholeLineHeadings(n) : k <= j
    IN  IF WholeLineHeadings(n) = {} THEN <<>>
        ELSE SubSeq(lines, first + 1, Len(lines))

(* C23: the items of every parsed category are, in order, texts of bullet  *)
(* lines that come after the first recognized heading, each item the text  *)
(* of one line; lines before that heading, blank lines and lines without a *)
(* bullet marker contribute nothing and are not appended to an item.       *)
C23_OnlyBulletsAfterHeading ==
    pc = "ready" =>
        \A k \in 1..Len(parsed_sections) :
            /\ IsSubsequence(parsed_sections[k].bullets,
                             ItemsOfLines(LinesAfterFirstHeading(news)))
            /\ \A i \in 1..Len(parsed_sections[k].bullets) :
                  /\ \A j \in 1..Len(parsed_sections[k].bullets[i]) :
                        parsed_sections[k].bullets[i][j] # NL
                  /\ parsed_sections[k].bullets[i] # <<>>

C23_Witness ==
    /\ pc = "ready"
    /\ news = Join(<<(<<"-", SP, "x">>), HeadingLine("Added"),
                     <<"-", SP, "x">> >>, NL)
    /\ parsed_sections = <<[name |-> "added", bullets |-> <<(<<"x">>)>>]>>

ReleaseOrder ==
    <<"write_version", "write_changelog", "write_news", "hooks", "stage",
      "commit", "tag", "push_commits", "push_tags">>

StepNames == [i \in 1..Len(release.steps) |-> release.steps[i].name]

(* C24: a non-dry-run release executes its steps in the fixed order write  *)
(* version, insert changelog entry, write news, pre-commit hooks, stage,   *)
(* commit, tag, push branch, push tags; a step is executed only if every   *)
(* earlier step succeeded; a tag is created only after the commit of this  *)
(* run, something is pushed only after its tag was created, and success    *)
(* is reported only after the tag push succeeded.                          *)
C24_FixedStepOrder ==
    ~release.dry_run =>
        /\ Len(release.steps) <= Len(ReleaseOrder)
        /\ StepNames = SubSeq(ReleaseOrder, 1, Len(release.steps))
        /\ \A i \in 1..(Len(release.steps) - 1) : release.steps[i].ok
        /\ Len(repo.tags) > Len(release.before.repo.tags) =>
              Len(repo.commits) > Len(release.before.repo.commits)
        /\ (repo.pushed_commits # release.before.repo.pushed_commits
              \/ repo.pushed_tags # release.before.repo.pushed_tags) =>
              Len(repo.tags) > Len(release.before.repo.tags)
        /\ release.pc = "done" =>
              /\ Len(release.steps) = Len(ReleaseOrder)
              /\ \A i \in 1..Len(release.steps) : release.steps[i].ok

(* C25: create_tag never creates a second tag with an existing name: when a *)
(* tag named tag_name exists it raises ValueError and the repository keeps *)
(* its tags; otherwise exactly one tag is added, annotated when the message *)
(* is non-empty and lightweight otherwise; after any sequence of calls all  *)
(* tag names of the repository are distinct.                                *)
TagNamesOf(r) == { r.tags[i].name : i \in 1..Len(r.tags) }

C25_CreateTagNoDuplicate ==
    /\ \A i, j \in 1..Len(repo.tags) :
          repo.tags[i].name = repo.tags[j].name => i = j
    /\ op_call.op = "create_tag" =>
          IF op_call.tag_name \in TagNamesOf(op_call.before)
          THEN /\ op_call.error = TagExistsError
               /\ repo = op_call.before
          ELSE /\ op_call.error = None
               /\ Len(repo.tags) = Len(op_call.before.tags) + 1
               /\ SubSeq(repo.tags, 1, Len(op_call.before.tags))
                     = op_call.before.tags
               /\ repo.tags[Len(repo.tags)].name = op_call.tag_name
               /\ repo.tags[Len(repo.tags)].annotated
                     = (op_call.message # <<>>)
               /\ [repo EXCEPT !.tags = op_call.before.tags] = op_call.before

C25_Witness ==
    /\ op_call.op = "create_tag"
    /\ op_call.tag_name \in TagNamesOf(op_call.before)
    /\ op_call.error = TagExistsError
    /\ Len(repo.tags) = 2
    /\ repo.tags[1].annotated
    /\ ~repo.tags[2].annotated

(* C26: commit_changes creates a commit and returns its hash if and only if *)
(* allow_empty is true or the index differs from HEAD; with allow_empty     *)
(* false and nothing staged it raises ValueError('No changes to commit')    *)
(* and creates no commit.                                                   *)
C26_CommitChanges ==
    op_call.op = "commit_changes" =>
        LET staged == op_call.before.index # op_call.before.head
            created == /\ Len(repo.commits) = Len(op_call.before.commits) + 1
                       /\ repo.commits[Len(repo.commits)].message
                             = op_call.message
                       /\ repo.head = op_call.before.index
        IN  /\ (created /\ op_call.returned) <=> (op_call.allow_empty \/ staged)
            /\ created <=> op_call.returned
            /\ (~op_call.allow_empty /\ ~staged) =>
                  /\ op_call.error = NoChangesError
                  /\ repo = op_call.before
            /\ op_call.returned => op_call.error = None

C26_Witness ==
    /\ op_call.op = "commit_changes"
    /\ ~op_call.allow_empty
    /\ op_call.before.index = op_call.before.head
    /\ op_call.error = NoChangesError
    /\ Len(repo.commits) = 1
    /\ ~repo.commits[1].allow_empty

(* C27: a release without --dry-run that fails because the manifest news    *)
(* exceeds 1500 characters leaves addon.xml and CHANGELOG.md as they were   *)
(* before the command ran and performs no git operation.                    *)
FailedOnLongNews ==
    /\ ~release.dry_run
    /\ release.pc = "failed"
    /\ release.steps # <<>>
    /\ release.steps[Len(release.steps)] = [name |-> "write_news", ok |-> FALSE]
    /\ call.op = "format_for_addon_news"
    /\ ~ret.ok
    /\ ret.error = TooLongError

C27_LongNewsLeavesFiles ==
    FailedOnLongNews =>
        /\ AddonXmlAt(release.addon_dir) = release.before.addon_xml
        /\ ChangelogAt(release.addon_dir) = release.before.changelog
        /\ repo = release.before.repo

(* C28: for every valid addon.xml (version on the root, or only in a        *)
(* <version> element of the metadata extension) the addon.xml preview of a  *)
(* dry-run release is identical in version placement, version value and     *)
(* news text to the addon.xml the release without --dry-run writes for the  *)
(* same inputs.                                                             *)
VersionElementText(tree) ==
    LET e == FindExtension(tree.elements)
    IN  IF e = 0 THEN None
        ELSE LET n == FindChild(tree.elements[e].children, "version")
             IN  IF n = 0 THEN None ELSE tree.elements[e].children[n].text

NewsElementText(tree) ==
    LET e == FindExtension(tree.elements)
    IN  IF e = 0 THEN None
        ELSE LET n == FindChild(tree.elements[e].children, "news")
             IN  IF n = 0 THEN None ELSE tree.elements[e].children[n].text

\* a release without --dry-run has written addon.xml, right after a
\* finished dry run with the same inputs on the same addon.xml
WrittenAfterPreview ==
    /\ ~release.dry_run
    /\ release.previous.dry_run
    /\ release.previous.pc = "done"
    /\ release.addon_dir = AddonDir
    /\ release.previous.addon_dir = release.addon_dir
    /\ release.previous.bump_type = release.bump_type
    /\ release.previous.news = arg_news
    /\ release.previous.addon_xml = release.before.addon_xml
    /\ \E i \in 1..Len(release.steps) :
          release.steps[i] = [name |-> "write_news", ok |-> TRUE]

C28_PreviewEqualsWritten ==
    WrittenAfterPreview =>
        LET preview == ParseXml(dry_run_dir.addon_xml)
            written == ParseXml(AddonXmlAt(release.addon_dir))
        IN  /\ preview.version = written.version
            /\ VersionElementText(preview) = VersionElementText(written)
            /\ NewsElementText(preview) = NewsElementText(written)

(* C29: for one formatter, format_for_addon_news with custom summary c      *)
(* succeeds if and only if L - len(summary) + len(c) <= 1500, where L is    *)
(* the length of the render without custom summary; when the first line and *)
(* the bracketed item lines alone exceed 1500 characters no custom summary  *)
(* makes the render succeed.                                                *)
LengthWithoutCustom == TextLen(Join(AddonNewsLines(Self, <<>>), NL))

\* the first line and the item lines, without the summary line
LengthOfFixedLines ==
    LET lines == AddonNewsLines(Self, <<>>)
    IN  TextLen(Join(<<lines[1]>> \o SubSeq(lines, 3, Len(lines)), NL))

C29_CustomSummaryLength ==
    (pc = "ready" /\ call.op = "format_for_addon_news") =>
        /\ ret.ok <=>
              LengthWithoutCustom - TextLen(summary)
                  + TextLen(call.custom_summary) <= AddonNewsLimit
        /\ LengthOfFixedLines > AddonNewsLimit => ~ret.ok

(* C29, amended: the equivalence holds for a non-empty custom summary; an   *)
(* empty one is replaced by the formatter's summary, and the render then    *)
(* succeeds if and only if L <= 1500.                                       *)
C29_EffectiveSummaryLength ==
    (pc = "ready" /\ call.op = "format_for_addon_news") =>
        /\ call.custom_summary # <<>> =>
              (ret.ok <=>
                  LengthWithoutCustom - TextLen(summary)
                      + TextLen(call.custom_summary) <= AddonNewsLimit)
        /\ call.custom_summary = <<>> =>
              (ret.ok <=> LengthWithoutCustom <= AddonNewsLimit)
        /\ LengthOfFixedLines > AddonNewsLimit => ~ret.ok

C29_Witness ==
    /\ pc = "ready"
    /\ call.op = "format_for_addon_news"
    /\ call.custom_summary # <<>>
    /\ ret.ok
    /\ LengthWithoutCustom > AddonNewsLimit
    /\ LengthWithoutCustom - TextLen(summary) + TextLen(call.custom_summary)
          = AddonNewsLimit

(* C30: the three item-listing renders of one formatter never diverge: the  *)
(* sequence of (category, item) pairs listed by format_for_changelog, by    *)
(* format_for_release_notes and by a successful format_for_addon_news is    *)
(* the same sequence, equal to the parsed mapping in order.                 *)
\* the pairs a markdown render lists: '- item' lines under '### Category'
RECURSIVE ListedInMarkdown(_, _)
ListedInMarkdown(lines, category) ==
    IF lines = <<>> THEN <<>>
    ELSE LET line == Head(lines)
         IN  IF \E c \in CategoryNames : line = HeadingLine(Capitalized[c])
             THEN ListedInMarkdown(Tail(lines),
                     CHOOSE c \in CategoryNames :
                         line = HeadingLine(Capitalized[c]))
             ELSE IF Len(line) >= 2 /\ line[1] = "-" /\ line[2] = SP
             THEN <<[name |-> category, item |-> SubSeq(line, 3, Len(line))]>>
                      \o ListedInMarkdown(Tail(lines), category)
             ELSE ListedInMarkdown(Tail(lines), category)

\* the pair a '[code] item' line of the manifest news lists
ListedInBracketLine(line) ==
    IF /\ Len(line) >= 4
       /\ line[4] = SP
       /\ \E c \in CategoryNames : SubSeq(line, 1, 3) = BracketCode(c)
    THEN [name |-> CHOOSE c \in CategoryNames :
                       SubSeq(line, 1, 3) = BracketCode(c),
          item |-> SubSeq(line, 5, Len(line))]
    ELSE [name |-> "", item |-> line]

ListedInAddonNews(lines) ==
    [k \in 1..(Len(lines) - 2) |-> ListedInBracketLine(lines[k + 2])]

C30_RendersListSameItems ==
    pc = "ready" =>
        /\ call.op \in {"format_for_changelog", "format_for_release_notes"} =>
              ListedInMarkdown(ResultLines, "") = ItemPairs(parsed_sections)
        /\ AddonNewsReturned =>
              ListedInAddonNews(ResultLines) = ItemPairs(parsed_sections)
        /\ ListedInMarkdown(Split(FormatForChangelog(Self), NL), "")
              = ListedInMarkdown(Split(FormatForReleaseNotes(Self), NL), "")
        /\ FormatForAddonNews(Self, <<>>).ok =>
              ListedInAddonNews(Split(FormatForAddonNews(Self, <<>>).value, NL))
                  = ListedInMarkdown(Split(FormatForChangelog(Self), NL), "")

C30_Witness ==
    /\ pc = "ready"
    /\ AddonNewsReturned
    /\ Len(parsed_sections) >= 2
    /\ Len(ItemPairs(parsed_sections)) >= 3
    /\ ListedInAddonNews(ResultLines)
          = ListedInMarkdown(Split(FormatForReleaseNotes(Self), NL), "")

====
